---- MODULE Spec2Model ----
(***************************************************************************)
(* A model of the flow-generation, flow-persistence and undo logic of the  *)
(* AI business flow backend (backend/app/services/ai.py,                    *)
(* backend/app/routers/flow.py, backend/app/utils/sanitizer.py).            *)
(*                                                                         *)
(* Conventions.                                                            *)
(*  - A text is a sequence of tokens; the tokens are the pieces the        *)
(*    sanitizer's regular expression tells apart: the scheme literals      *)
(*    "http://", "HTTP://" and "https://", the host/word characters "w",   *)
(*    "a", "b" and "c", the path characters "/" and "?", and any other     *)
(*    character " ".                                                       *)
(*  - Python's None is the reserved text None.                             *)
(*  - A JSON value is a tagged record [jt, v]; jt is the JSON type.        *)
(*  - The handlers of flow.py are `async def' functions whose database     *)
(*    calls are synchronous, so a handler runs without interleaving up to  *)
(*    its next `await'.  Only generate_flow awaits (the model request and  *)
(*    the back-off sleep inside generate_business_flow), so it is the only *)
(*    handler that takes several steps.                                    *)
(*  - Timestamps and the layout positions of a node are not modelled.      *)
(*  - The detail of an answer that interpolates an id is given without    *)
(*    the id.                                                              *)
(***************************************************************************)
EXTENDS Integers, Sequences, FiniteSets, TLC

(***************************************************************************)
(* Bounds of the model.                                                    *)
(***************************************************************************)
MaxId == 6
MaxSteps == 3
MaxLogs == 1
MaxLen == 3

(***************************************************************************)
(* Program constants.                                                      *)
(***************************************************************************)
max_retries == 3
base_timeout == 30
max_timeout == 90
MinActors == 3
MaxActors == 5
MinSteps == 3
MaxStepCount == 10
MinNodes == 3
MaxNodes == 30

Projects == {1, 2}
\* the id of no project
UnknownProject == Cardinality(Projects) + 1
ProjectIds == Projects \cup {UnknownProject}
Reqs == {1, 2}

None == <<"None">>

Min(a, b) == IF a <= b THEN a ELSE b
Pow2(n) == IF n = 0 THEN 1 ELSE IF n = 1 THEN 2 ELSE IF n = 2 THEN 4 ELSE 8

(***************************************************************************)
(* utils/sanitizer.py: re.sub with IGNORECASE of the pattern "http://",     *)
(* then one or more host characters (word character, "-", "."), then       *)
(* optionally "/" and any number of path characters (word character, "-",  *)
(* ".", "/", "?", "%", "&", "="); the replacement is "https://" followed   *)
(* by the matched host and path.  A match starts at a scheme               *)
(* token "http://" (either case) that is followed by at least one host     *)
(* character; the host takes word characters greedily, the optional path   *)
(* starts at "/" and takes path characters greedily.  The letters of a     *)
(* following scheme token are host/path characters, its ":" is not: such a *)
(* token ends the match from inside and is passed over unchanged.  Only    *)
(* the scheme at the start of a match is rewritten.                        *)
(***************************************************************************)
IsHttp(tok) == tok \in {"http://", "HTTP://"}
IsScheme(tok) == tok \in {"http://", "HTTP://", "https://"}
WordTokens == {"w", "a", "b", "c"}
IsHostStart(tok) == tok \in WordTokens \/ IsScheme(tok)

RECURSIVE SubFrom(_, _, _)
SubFrom(s, i, mode) ==
    IF i > Len(s) THEN <<>>
    ELSE IF mode = "scan" THEN
        IF IsHttp(s[i]) /\ i < Len(s) /\ IsHostStart(s[i + 1])
        THEN <<"https://">> \o SubFrom(s, i + 1, "host")
        ELSE <<s[i]>> \o SubFrom(s, i + 1, "scan")
    ELSE IF mode = "host" THEN
        IF s[i] \in WordTokens THEN <<s[i]>> \o SubFrom(s, i + 1, "host")
        ELSE IF IsScheme(s[i]) THEN <<s[i]>> \o SubFrom(s, i + 1, "scan")
        ELSE IF s[i] = "/" THEN <<s[i]>> \o SubFrom(s, i + 1, "path")
        ELSE SubFrom(s, i, "scan")
    ELSE
        IF s[i] \in WordTokens \cup {"/", "?"} THEN <<s[i]>> \o SubFrom(s, i + 1, "path")
        ELSE IF IsScheme(s[i]) THEN <<s[i]>> \o SubFrom(s, i + 1, "scan")
        ELSE SubFrom(s, i, "scan")

sanitize_http_to_https(text) ==
    IF text = None THEN None ELSE SubFrom(text, 1, "scan")

(***************************************************************************)
(* JSON values of a model response.                                        *)
(***************************************************************************)
JInt(n) == [jt |-> "int", v |-> n]
JStr(s) == [jt |-> "str", v |-> s]
JList(s) == [jt |-> "list", v |-> s]
JObj(r) == [jt |-> "dict", v |-> r]
JInvalid == [jt |-> "invalid", v |-> 0]

HasKey(j, k) == j.jt = "dict" /\ k \in DOMAIN j.v

\* Python's str.strip() is empty: the text has no character but white space.
IsBlank(text) == \A i \in 1..Len(text) : text[i] = " "

(***************************************************************************)
(* Exceptions (exceptions.py).                                             *)
(***************************************************************************)
NoError == [exc |-> "none", field |-> "", index |-> -1]
ValidationError(field, index) ==
    [exc |-> "ValidationError", field |-> field, index |-> index]
AIServiceError(ai_error_type) ==
    [exc |-> "AIServiceError", field |-> ai_error_type, index |-> -1]

\* The least index of s (1-based) at which Bad holds, 0 when there is none.
FirstIndex(s, Bad(_)) ==
    IF \E i \in 1..Len(s) : Bad(s[i])
    THEN CHOOSE i \in 1..Len(s) : Bad(s[i]) /\ \A j \in 1..(i - 1) : ~Bad(s[j])
    ELSE 0

(***************************************************************************)
(* A model response: the text of choices[0].message.content, as an opening *)
(* fence ("", "fence_json" for three backticks and the tag json, "fence"   *)
(* for three backticks alone), a body and a closing fence ("" or "fence"). *)
(* The body is a JSON value, JInvalid for text that is not JSON,           *)
(* or JEmpty for no text at all.                                           *)
(***************************************************************************)
JEmpty == [jt |-> "empty", v |-> 0]
Response(open, body, close) ==
    [fence_open |-> open, body |-> body, fence_close |-> close]
IsEmptyResponse(response) ==
    response.fence_open = "" /\ response.fence_close = "" /\ response.body = JEmpty

\* ai.py 281-290: strip, drop a leading fence with the tag json and a trailing
\* fence, strip, json.loads.  A leading fence without the tag stays in the text.
json_loads(response) ==
    IF response.fence_open = "fence" THEN JInvalid
    ELSE IF response.body.jt \in {"invalid", "empty"} THEN JInvalid
    ELSE response.body

actor_format_bad(actor) ==
    ~(actor.jt = "dict" /\ HasKey(actor, "name") /\ HasKey(actor, "role"))
step_format_bad(step) ==
    ~(step.jt = "dict" /\ HasKey(step, "name") /\ HasKey(step, "description"))

\* mutant: the actor of a node is not compared with the declared names
node_error_any_actor(node, i, actor_names, step_names) ==
    IF node.jt # "dict" THEN ValidationError("node_i_type", i)
    ELSE IF \E f \in {"text", "order", "actor", "step"} : ~HasKey(node, f)
    THEN ValidationError("node_i_fields", i)
    ELSE IF node.v.text.jt # "str" \/ IsBlank(node.v.text.v)
    THEN ValidationError("node_i_text", i)
    ELSE IF node.v.order.jt # "int" \/ node.v.order.v < 0
    THEN ValidationError("node_i_order", i)
    ELSE IF \A k \in 1..Len(step_names) : step_names[k] # node.v.step
    THEN ValidationError("node_i_step", i)
    ELSE NoError

\* ai.py 356-399: the checks of one node, in the order of the code.
node_error(node, i, actor_names, step_names) ==
    IF node.jt # "dict" THEN ValidationError("node_i_type", i)
    ELSE IF \E f \in {"text", "order", "actor", "step"} : ~HasKey(node, f)
    THEN ValidationError("node_i_fields", i)
    ELSE IF node.v.text.jt # "str" \/ IsBlank(node.v.text.v)
    THEN ValidationError("node_i_text", i)
    ELSE IF node.v.order.jt # "int" \/ node.v.order.v < 0
    THEN ValidationError("node_i_order", i)
    ELSE IF \A k \in 1..Len(actor_names) : actor_names[k] # node.v.actor
    THEN ValidationError("node_i_actor", i)
    ELSE IF \A k \in 1..Len(step_names) : step_names[k] # node.v.step
    THEN ValidationError("node_i_step", i)
    ELSE NoError

\* ai.py 279-435.  The result is [error, flow_data]; flow_data is meaningful
\* when error = NoError.
NoFlow == [actors |-> <<>>, steps |-> <<>>, flow_nodes |-> <<>>, edges |-> <<>>]
Failed(err) == [error |-> err, flow_data |-> NoFlow]

parse_nodes(actors, steps, parsed_data) ==
    LET flow_nodes == parsed_data.v.flow_nodes
        actor_names == [k \in 1..Len(actors) |-> actors[k].v.name]
        step_names == [k \in 1..Len(steps) |-> steps[k].v.name]
        Bad(i) == node_error(flow_nodes.v[i], i - 1, actor_names, step_names) # NoError
        raw_edges == IF HasKey(parsed_data, "edges") THEN parsed_data.v.edges
                     ELSE JList(<<>>)
        \* ai.py 402-418: the loop over the edges only logs; nothing is removed.
        edges == IF raw_edges.jt = "list" THEN raw_edges.v ELSE <<>>
    IN  IF flow_nodes.jt # "list" THEN Failed(ValidationError("invalid_type", -1))
        ELSE IF \E i \in 1..Len(flow_nodes.v) : Bad(i)
        THEN LET i == CHOOSE i \in 1..Len(flow_nodes.v) :
                          Bad(i) /\ \A j \in 1..(i - 1) : ~Bad(j)
             IN  Failed(node_error(flow_nodes.v[i], i - 1, actor_names, step_names))
        ELSE [error |-> NoError,
              flow_data |-> [actors |-> actors, steps |-> steps,
                             flow_nodes |-> flow_nodes.v, edges |-> edges]]

parse_steps(actors, parsed_data) ==
    LET steps == parsed_data.v.steps
    IN  IF steps.jt # "list" \/ Len(steps.v) < MinSteps \/ Len(steps.v) > MaxStepCount
        THEN Failed(ValidationError("steps_count", -1))
        ELSE IF FirstIndex(steps.v, step_format_bad) # 0
        THEN Failed(ValidationError("step_i_format",
                                    FirstIndex(steps.v, step_format_bad) - 1))
        ELSE parse_nodes(actors, steps.v, parsed_data)

parse_ai_response(response) ==
    LET parsed_data == json_loads(response)
    IN  IF parsed_data = JInvalid THEN Failed(ValidationError("json_format", -1))
        ELSE IF parsed_data.jt # "dict" THEN Failed(ValidationError("parse_error", -1))
        ELSE IF \E f \in {"actors", "steps", "flow_nodes"} : ~HasKey(parsed_data, f)
        THEN Failed(ValidationError("missing_field", -1))
        ELSE LET actors == parsed_data.v.actors
             IN  IF actors.jt # "list" \/ Len(actors.v) < MinActors
                                       \/ Len(actors.v) > MaxActors
                 THEN Failed(ValidationError("actors_count", -1))
                 ELSE IF FirstIndex(actors.v, actor_format_bad) # 0
                 THEN Failed(ValidationError("actor_i_format",
                                 FirstIndex(actors.v, actor_format_bad) - 1))
                 ELSE parse_steps(actors.v, parsed_data)

\* Python's sorted() on a list of integers (insertion sort).
RECURSIVE Insert(_, _)
Insert(x, s) ==
    IF s = <<>> THEN <<x>>
    ELSE IF x <= Head(s) THEN <<x>> \o s
    ELSE <<Head(s)>> \o Insert(x, Tail(s))
RECURSIVE sorted(_)
sorted(s) == IF s = <<>> THEN <<>> ELSE Insert(Head(s), sorted(Tail(s)))

\* mutant: the order values are not compared with 0..N-1
validate_flow_structure_unordered(flow_data) ==
    LET actors == flow_data.actors
        steps == flow_data.steps
        flow_nodes == flow_data.flow_nodes
    IN  IF Len(actors) < MinActors \/ Len(actors) > MaxActors
        THEN ValidationError("actor_count", -1)
        ELSE IF Len(steps) < MinSteps \/ Len(steps) > MaxStepCount
        THEN ValidationError("step_count", -1)
        ELSE IF Len(flow_nodes) < MinNodes \/ Len(flow_nodes) > MaxNodes
        THEN ValidationError("node_count", -1)
        ELSE NoError

\* mutant: the number of nodes is not bounded
validate_flow_structure_any_count(flow_data) ==
    LET actors == flow_data.actors
        steps == flow_data.steps
        flow_nodes == flow_data.flow_nodes
        orders == [i \in 1..Len(flow_nodes) |-> flow_nodes[i].v.order.v]
        expected_orders == [i \in 1..Len(flow_nodes) |-> i - 1]
    IN  IF Len(actors) < MinActors \/ Len(actors) > MaxActors
        THEN ValidationError("actor_count", -1)
        ELSE IF Len(steps) < MinSteps \/ Len(steps) > MaxStepCount
        THEN ValidationError("step_count", -1)
        ELSE IF sorted(orders) # expected_orders
        THEN ValidationError("node_ordering", -1)
        ELSE NoError

\* ai.py 437-493.  The scan for prohibited terms (495-510) only logs.
validate_flow_structure(flow_data) ==
    LET actors == flow_data.actors
        steps == flow_data.steps
        flow_nodes == flow_data.flow_nodes
        orders == [i \in 1..Len(flow_nodes) |-> flow_nodes[i].v.order.v]
        expected_orders == [i \in 1..Len(flow_nodes) |-> i - 1]
    IN  IF Len(actors) < MinActors \/ Len(actors) > MaxActors
        THEN ValidationError("actor_count", -1)
        ELSE IF Len(steps) < MinSteps \/ Len(steps) > MaxStepCount
        THEN ValidationError("step_count", -1)
        ELSE IF Len(flow_nodes) < MinNodes \/ Len(flow_nodes) > MaxNodes
        THEN ValidationError("node_count", -1)
        ELSE IF sorted(orders) # expected_orders
        THEN ValidationError("node_ordering", -1)
        ELSE IF Cardinality({orders[i] : i \in 1..Len(orders)}) # Len(orders)
        THEN ValidationError("duplicate_orders", -1)
        ELSE NoError

(***************************************************************************)
(* The inputs of the model: request texts, model responses and the         *)
(* outcomes of one model request.                                          *)
(***************************************************************************)
TextA == <<"a">>
TextB == <<"b">>
TextC == <<"c">>
TextUrl == <<"http://", "w">>
TextInputs == {TextA, TextUrl}
OrderInputs == {0, 1}

Actor(name) == JObj([name |-> JStr(name), role |-> JStr(TextA)])
Step(name) == JObj([name |-> JStr(name), description |-> JStr(TextA)])
Node(text, order, actor, step) ==
    JObj([text |-> JStr(text), order |-> JInt(order),
          actor |-> JStr(actor), step |-> JStr(step)])
Edge(from, to) == JObj([from_order |-> JInt(from), to_order |-> JInt(to)])
EdgeIf(from, to, condition) ==
    JObj([from_order |-> JInt(from), to_order |-> JInt(to),
          condition |-> JStr(condition)])

Actors3 == <<Actor(TextA), Actor(TextB), Actor(TextC)>>
Steps3 == <<Step(TextA), Step(TextB), Step(TextC)>>
Flow(nodes, edges) ==
    JObj([actors |-> JList(Actors3), steps |-> JList(Steps3),
          flow_nodes |-> JList(nodes), edges |-> JList(edges)])
FlowNoEdges(nodes) ==
    JObj([actors |-> JList(Actors3), steps |-> JList(Steps3),
          flow_nodes |-> JList(nodes)])

NodesX == <<Node(TextUrl, 0, TextA, TextA), Node(TextB, 1, TextB, TextB),
            Node(TextC, 2, TextC, TextC)>>
NodesY == <<Node(TextB, 1, TextB, TextA), Node(TextA, 0, TextA, TextA),
            Node(TextA, 2, TextC, TextC)>>

ResponseX == Response("", Flow(NodesX, <<Edge(0, 1), EdgeIf(1, 2, TextUrl)>>), "")
ResponseY == Response("fence_json", FlowNoEdges(NodesY), "fence")
\* valid nodes, one edge without to_order
ResponseBadEdge ==
    Response("", Flow(NodesX, <<Edge(0, 1), JObj([from_order |-> JInt(1)])>>), "")
\* not JSON
ResponseGarbage == Response("", JInvalid, "")
\* a node names an undeclared actor
ResponseBadActor ==
    Response("", Flow(<<Node(TextA, 0, TextUrl, TextA), Node(TextB, 1, TextB, TextB),
                        Node(TextC, 2, TextC, TextC)>>, <<>>), "")
\* order values with a gap: passes parsing, fails the structure check
ResponseGap ==
    Response("", Flow(<<Node(TextA, 0, TextA, TextA), Node(TextB, 1, TextB, TextB),
                        Node(TextC, 3, TextC, TextC)>>, <<>>), "")
ResponseEmpty == Response("", JEmpty, "")

ModelResponses ==
    {ResponseX, ResponseY, ResponseBadEdge, ResponseGarbage, ResponseBadActor,
     ResponseGap, ResponseEmpty}

\* What a model request can end in: a response, asyncio.TimeoutError of
\* wait_for, openai's RateLimitError or APIConnectionError, or any other
\* exception.
Outcomes ==
    [kind : {"response"}, response : ModelResponses]
    \cup [kind : {"timeout", "rate_limit", "connection", "unexpected"},
          response : {ResponseEmpty}]

(***************************************************************************)
(* State.                                                                  *)
(*  nodes         the committed rows of flow_nodes                         *)
(*  edges         the committed rows of flow_edges, per project, in the    *)
(*                order of insertion                                       *)
(*  next_id       the next primary key of flow_nodes                       *)
(*  hearing_logs  the contents of a project's hearing logs, by created_at  *)
(*  undo_history  the module-level dictionary of flow.py                   *)
(*  req           the generate requests in flight, by request slot         *)
(*  response      the response of the last edit or undo request            *)
(*  served        the number of requests received so far                   *)
(*  hist          an observer: per project the last events that changed    *)
(*                its flow or its undo entry, and the project's nodes just *)
(*                before its last successful node edit                     *)
(*  call          a call of one of the pure functions of the service (the  *)
(*                response validator, the sanitizer) on its own, outside   *)
(*                a request: its argument and, once applied, its result    *)
(***************************************************************************)
VARIABLES nodes, edges, next_id, hearing_logs, undo_history, req, response,
          served, hist, call

vars == <<nodes, edges, next_id, hearing_logs, undo_history, req, response,
          served, hist, call>>

FlowNode(id, p, text, order, actor, step) ==
    [id |-> id, project_id |-> p, text |-> text, order |-> order,
     actor |-> actor, step |-> step]
FlowEdge(from, to, condition) ==
    [from_node_order |-> from, to_node_order |-> to, condition |-> condition]

NodesOf(ns, p) == {n \in ns : n.project_id = p}
NodeIds(ns) == {n.id : n \in ns}
NodeById(ns, id) == CHOOSE n \in ns : n.id = id

IdleReq ==
    [pc |-> "idle", project_id |-> 0, attempt |-> 0, requests |-> 0,
     last_error |-> NoError, timeouts |-> <<>>, sleeps |-> <<>>,
     status |-> 0, detail |-> "", raised |-> NoError]
NoResponse == [op |-> "none", project_id |-> 0, status |-> 0, detail |-> ""]
HttpResponse(op, p, status, detail) ==
    [op |-> op, project_id |-> p, status |-> status, detail |-> detail]

NoCall == [fn |-> "none", state |-> "none"]

\* The observer: the last three events of a project.
Note(h, p, event) ==
    [h EXCEPT ![p].ops = IF Len(@) < 3 THEN Append(@, event)
                         ELSE Append(Tail(@), event)]
NoteEdit(h, p, event, before) ==
    [Note(h, p, event) EXCEPT ![p].before = before]

\* A service that has two projects, the first with one hearing log, and no
\* flow yet.
InitService ==
    /\ nodes = {}
    /\ edges = [p \in Projects |-> <<>>]
    /\ next_id = 1
    /\ hearing_logs = [p \in Projects |-> IF p = 1 THEN <<TextA>> ELSE <<>>]
    /\ undo_history = [p \in {} |-> 0]
    /\ req = [r \in Reqs |-> IdleReq]
    /\ response = NoResponse
    /\ served = 0
    /\ hist = [p \in Projects |-> [ops |-> <<>>, before |-> {}]]

Init == InitService /\ call = NoCall

(***************************************************************************)
(* flow.py 28-39: the undo dictionary.                                     *)
(***************************************************************************)
\* mutant: an entry that is already recorded is kept
record_undo_operation_keep(h, p, operation, data) ==
    [q \in DOMAIN h \cup {p} |->
        IF q \in DOMAIN h THEN h[q] ELSE [operation |-> operation, data |-> data]]

\* flow.py 28-33
record_undo_operation(h, p, operation, data) ==
    [q \in DOMAIN h \cup {p} |->
        IF q = p THEN [operation |-> operation, data |-> data] ELSE h[q]]

\* mutant: the entry stays
clear_undo_history_noop(h, p) == h

\* flow.py 36-39
clear_undo_history(h, p) == [q \in DOMAIN h \ {p} |-> h[q]]

(***************************************************************************)
(* routers/hearing.py 60-105: a hearing log is added to a project (the     *)
(* schema asks for at least one character, which may be white space).      *)
(***************************************************************************)
LogInputs == {TextA, <<" ">>}
add_hearing_log(p, content) ==
    /\ served < MaxSteps
    /\ Len(hearing_logs[p]) < MaxLogs
    /\ hearing_logs' = [hearing_logs EXCEPT ![p] = Append(@, content)]
    /\ served' = served + 1
    /\ UNCHANGED <<call, nodes, edges, next_id, undo_history, req, response, hist>>

(***************************************************************************)
(* services/ai.py 84-186, generate_business_flow, and routers/flow.py      *)
(* 47-166, generate_flow.                                                  *)
(***************************************************************************)
\* flow.py 148-166: the except clauses of generate_flow.  ValidationError and
\* AIServiceError derive from BusinessFlowException, a plain Exception.
generate_flow_except(e) ==
    IF e.exc = "ValueError"
    THEN [status |-> 400, detail |-> "Flow generation validation failed"]
    ELSE IF e.exc = "RuntimeError"
    THEN [status |-> 500, detail |-> "AI flow generation failed"]
    ELSE [status |-> 500,
          detail |-> "An unexpected error occurred during flow generation"]

Finished(q, status, detail, raised) ==
    [q EXCEPT !.pc = "done", !.status = status, !.detail = detail,
              !.raised = raised]
FinishedWith(q, e) ==
    Finished(q, generate_flow_except(e).status, generate_flow_except(e).detail, e)

\* mutant: the project's rows are deleted before the hearing logs are read
generate_flow_start_deleting(r, p) ==
    /\ req[r].pc \in {"idle", "done"}
    /\ served < MaxSteps
    /\ served' = served + 1
    /\ LET q == [IdleReq EXCEPT !.project_id = p]
       IN  req' = [req EXCEPT ![r] =
                IF p \notin Projects
                THEN Finished(q, 404, "Project not found", NoError)
                ELSE IF hearing_logs[p] = <<>>
                THEN Finished(q, 400, "No hearing logs found for this project",
                              NoError)
                ELSE IF \E i \in 1..Len(hearing_logs[p]) : IsBlank(hearing_logs[p][i])
                THEN FinishedWith(q, ValidationError("", -1))
                ELSE [q EXCEPT !.pc = "calling"]]
    /\ nodes' = nodes \ NodesOf(nodes, p)
    /\ edges' = [q \in Projects |-> IF q = p THEN <<>> ELSE edges[q]]
    /\ UNCHANGED <<call, next_id, hearing_logs, undo_history, response, hist>>

\* flow.py 65-89 and ai.py 98-116: up to the first model request.
generate_flow_start(r, p) ==
    /\ req[r].pc \in {"idle", "done"}
    /\ served < MaxSteps
    /\ served' = served + 1
    /\ LET q == [IdleReq EXCEPT !.project_id = p]
       IN  req' = [req EXCEPT ![r] =
                IF p \notin Projects
                THEN Finished(q, 404, "Project not found", NoError)
                ELSE IF hearing_logs[p] = <<>>
                THEN Finished(q, 400, "No hearing logs found for this project",
                              NoError)
                ELSE IF \E i \in 1..Len(hearing_logs[p]) : IsBlank(hearing_logs[p][i])
                THEN FinishedWith(q, ValidationError("", -1))
                ELSE [q EXCEPT !.pc = "calling"]]
    /\ UNCHANGED <<call, nodes, edges, next_id, hearing_logs, undo_history, response,
                   hist>>

\* ai.py 126-140: what the body of the try block raises for an outcome of
\* the model request, NoError when it returns flow_data.
attempt_error(o) ==
    IF o.kind = "timeout" THEN [exc |-> "TimeoutError", field |-> "", index |-> -1]
    ELSE IF o.kind = "rate_limit"
    THEN [exc |-> "RateLimitError", field |-> "", index |-> -1]
    ELSE IF o.kind = "connection"
    THEN [exc |-> "APIConnectionError", field |-> "", index |-> -1]
    ELSE IF o.kind = "unexpected"
    THEN [exc |-> "Exception", field |-> "", index |-> -1]
    ELSE IF IsEmptyResponse(o.response) THEN AIServiceError("empty_response")
    ELSE IF parse_ai_response(o.response).error # NoError
    THEN parse_ai_response(o.response).error
    ELSE validate_flow_structure(parse_ai_response(o.response).flow_data)

\* The same, evaluated once per outcome.
attempt_errors == [o \in Outcomes |-> attempt_error(o)]
accepted_flows == [o \in {x \in Outcomes : attempt_error(x) = NoError} |->
                      parse_ai_response(o.response).flow_data]

\* mutant: a validation error is handled like an unexpected exception
except_clause_retry_validation(e) ==
    IF e.exc = "TimeoutError" THEN "timeout"
    ELSE IF e.exc = "RateLimitError" THEN "rate_limit"
    ELSE IF e.exc = "APIConnectionError" THEN "connection"
    ELSE IF e.exc = "AIServiceError" THEN "raise"
    ELSE "unexpected"

\* ai.py 145-182: the except clause that handles e.
except_clause(e) ==
    IF e.exc = "TimeoutError" THEN "timeout"
    ELSE IF e.exc = "RateLimitError" THEN "rate_limit"
    ELSE IF e.exc = "APIConnectionError" THEN "connection"
    ELSE IF e.exc \in {"ValidationError", "AIServiceError"} THEN "raise"
    ELSE "unexpected"

\* mutant: one attempt too many
more_attempts_extra(attempt) == attempt <= max_retries

\* ai.py 120: for attempt in range(self.max_retries)
more_attempts(attempt) == attempt < max_retries

\* mutant: the allowance doubles without the cap
attempt_timeout_uncapped(attempt) == base_timeout * Pow2(attempt)

\* ai.py 122
attempt_timeout(attempt) == Min(base_timeout * Pow2(attempt), max_timeout)

\* mutant: the sleep is not skipped after the last attempt
backoff_after_last(clause, attempt) ==
    IF clause = "rate_limit" THEN <<Pow2(attempt)>>
    ELSE IF clause = "connection" THEN <<attempt + 1>>
    ELSE <<>>

\* ai.py 159-160 and 169-170: the sleeps after a failed attempt.
backoff(clause, attempt) ==
    IF attempt < max_retries - 1 /\ clause = "rate_limit" THEN <<Pow2(attempt)>>
    ELSE IF attempt < max_retries - 1 /\ clause = "connection" THEN <<attempt + 1>>
    ELSE <<>>

\* ai.py 184-186: what is raised when no attempt is left: the error recorded
\* by the last attempt, and the generic error only when none was recorded.
retry_exhausted(last_error) ==
    IF last_error = NoError THEN AIServiceError("retry_exhausted") ELSE last_error

\* ai.py 120-186: one attempt whose model request fails or whose response is
\* refused, up to the next model request or to the end of generate_flow.
generate_flow_attempt_fails(r, o) ==
    /\ req[r].pc = "calling"
    /\ attempt_errors[o] # NoError
    /\ LET q == [req[r] EXCEPT !.requests = @ + 1,
                               !.timeouts = Append(@, attempt_timeout(req[r].attempt))]
           e == attempt_errors[o]
           clause == except_clause(e)
           last_error == AIServiceError(clause)
           again == [q EXCEPT !.last_error = last_error,
                              !.attempt = @ + 1,
                              !.sleeps = @ \o backoff(clause, q.attempt)]
       IN  req' = [req EXCEPT ![r] =
                IF clause = "raise" THEN FinishedWith(q, e)
                ELSE IF more_attempts(again.attempt) THEN again
                ELSE FinishedWith(again, retry_exhausted(again.last_error))]
    /\ UNCHANGED <<call, nodes, edges, next_id, hearing_logs, undo_history, response,
                   served, hist>>

\* dict.get on a JSON object, as the text the database stores.
get_text(j, k) ==
    IF HasKey(j, k) /\ j.v[k].jt = "str" THEN j.v[k].v ELSE None

\* mutant: actor and step are not stored
new_flow_nodes_no_actor(p, flow_nodes, first_id) ==
    {FlowNode(first_id + i - 1, p, flow_nodes[i].v.text.v, flow_nodes[i].v.order.v,
              None, None) : i \in 1..Len(flow_nodes)}

\* flow.py 95-108: the rows of the new nodes; the keys are given at commit.
new_flow_nodes(p, flow_nodes, first_id) ==
    {FlowNode(first_id + i - 1, p, flow_nodes[i].v.text.v, flow_nodes[i].v.order.v,
              get_text(flow_nodes[i], "actor"), get_text(flow_nodes[i], "step")) :
        i \in 1..Len(flow_nodes)}

\* flow.py 120-126: edge_data["from_order"] and edge_data["to_order"] raise on
\* an edge that is no object or lacks a key; a value that is no integer
\* is refused by the integer column.
edge_insertable(edge) ==
    /\ HasKey(edge, "from_order") /\ edge.v.from_order.jt = "int"
    /\ HasKey(edge, "to_order") /\ edge.v.to_order.jt = "int"
new_flow_edges(flow_edges) ==
    [i \in 1..Len(flow_edges) |->
        FlowEdge(flow_edges[i].v.from_order.v, flow_edges[i].v.to_order.v,
                 get_text(flow_edges[i], "condition"))]

\* flow.py 91-133: the replacement of project p's flow.  commit1 and commit2
\* tell whether the commit of line 111 and the commit of line 130 succeed.
\* The result is the committed state and the exception met, if any.
DbError == [exc |-> "SQLAlchemyError", field |-> "", index |-> -1]
KeyError == [exc |-> "KeyError", field |-> "", index |-> -1]
generate_flow_replace(p, flow_data, commit1, commit2) ==
    LET created_nodes == new_flow_nodes(p, flow_data.flow_nodes, next_id)
        kept == nodes \ NodesOf(nodes, p)
        after1 == [nodes |-> kept \cup created_nodes,
                   next_id |-> next_id + Len(flow_data.flow_nodes)]
    IN  IF ~commit1
        THEN [nodes |-> nodes, edges |-> edges, next_id |-> next_id,
              raised |-> DbError]
        ELSE IF flow_data.edges = <<>>
        THEN [nodes |-> after1.nodes, edges |-> [edges EXCEPT ![p] = <<>>],
              next_id |-> after1.next_id, raised |-> NoError]
        ELSE IF \E i \in 1..Len(flow_data.edges) : ~edge_insertable(flow_data.edges[i])
        THEN [nodes |-> after1.nodes, edges |-> [edges EXCEPT ![p] = <<>>],
              next_id |-> after1.next_id, raised |-> KeyError]
        ELSE IF ~commit2
        THEN [nodes |-> after1.nodes, edges |-> [edges EXCEPT ![p] = <<>>],
              next_id |-> after1.next_id, raised |-> DbError]
        ELSE [nodes |-> after1.nodes,
              edges |-> [edges EXCEPT ![p] = new_flow_edges(flow_data.edges)],
              next_id |-> after1.next_id, raised |-> NoError]

\* ai.py 126-143 and flow.py 89-166: the attempt whose response is accepted,
\* and the rest of generate_flow, which runs without a further await.
generate_flow_attempt_succeeds(r, o, commit1, commit2) ==
    /\ req[r].pc = "calling"
    /\ attempt_errors[o] = NoError
    /\ LET q == [req[r] EXCEPT !.requests = @ + 1,
                               !.timeouts = Append(@, attempt_timeout(req[r].attempt))]
           p == q.project_id
           flow_data == accepted_flows[o]
           res == generate_flow_replace(p, flow_data, commit1, commit2)
       IN  /\ next_id + Len(flow_data.flow_nodes) - 1 <= MaxId
           /\ nodes' = res.nodes
           /\ edges' = res.edges
           /\ next_id' = res.next_id
           /\ req' = [req EXCEPT ![r] =
                    IF res.raised = NoError THEN Finished(q, 200, "", NoError)
                    ELSE FinishedWith(q, res.raised)]
           /\ hist' = IF res.raised = NoError THEN Note(hist, p, "generate")
                      ELSE IF res.nodes # nodes \/ res.edges # edges
                      THEN Note(hist, p, "generate_failed")
                      ELSE hist
    /\ UNCHANGED <<call, hearing_logs, undo_history, response, served>>

(***************************************************************************)
(* routers/flow.py: the node edits.  `commit' tells whether db.commit()    *)
(* succeeds; when it raises the handler rolls back and answers 500.        *)
(***************************************************************************)
\* flow.py 252-305
update_flow_node(node_id, text, commit) ==
    /\ served < MaxSteps
    /\ served' = served + 1
    /\ IF node_id \notin NodeIds(nodes)
       THEN /\ response' = HttpResponse("update_node", 0, 404, "Flow node not found")
            /\ UNCHANGED <<nodes, undo_history, hist>>
       ELSE LET flow_node == NodeById(nodes, node_id)
                p == flow_node.project_id
                old_text == flow_node.text
                updated == [flow_node EXCEPT !.text = sanitize_http_to_https(text)]
            IN  IF commit
                THEN /\ nodes' = (nodes \ {flow_node}) \cup {updated}
                     /\ undo_history' = record_undo_operation(undo_history, p,
                            "update_node", [node_id |-> node_id, old_text |-> old_text])
                     /\ response' = HttpResponse("update_node", p, 200, "")
                     /\ hist' = NoteEdit(hist, p, "update_node", NodesOf(nodes, p))
                ELSE /\ response' = HttpResponse("update_node", p, 500,
                                                 "Failed to update flow node")
                     /\ UNCHANGED <<nodes, undo_history, hist>>
    /\ UNCHANGED <<call, edges, next_id, hearing_logs, req>>

\* flow.py 308-360
create_flow_node(p, text, order, commit) ==
    /\ served < MaxSteps
    /\ served' = served + 1
    /\ IF p \notin Projects
       THEN /\ response' = HttpResponse("create_node", p, 404, "Project not found")
            /\ UNCHANGED <<nodes, next_id, undo_history, hist>>
       ELSE /\ next_id <= MaxId
            /\ LET flow_node == FlowNode(next_id, p, sanitize_http_to_https(text),
                                         order, None, None)
               IN  IF commit
                   THEN /\ nodes' = nodes \cup {flow_node}
                        /\ next_id' = next_id + 1
                        /\ undo_history' = record_undo_operation(undo_history, p,
                               "create_node", [node_id |-> flow_node.id])
                        /\ response' = HttpResponse("create_node", p, 200, "")
                        /\ hist' = NoteEdit(hist, p, "create_node", NodesOf(nodes, p))
                   ELSE /\ response' = HttpResponse("create_node", p, 500,
                                                    "Failed to create flow node")
                        /\ UNCHANGED <<nodes, next_id, undo_history, hist>>
    /\ UNCHANGED <<call, edges, hearing_logs, req>>

\* flow.py 489-534: the undo entry is recorded before the delete is committed.
delete_flow_node(node_id, commit) ==
    /\ served < MaxSteps
    /\ served' = served + 1
    /\ IF node_id \notin NodeIds(nodes)
       THEN /\ response' = HttpResponse("delete_node", 0, 404, "Flow node not found")
            /\ UNCHANGED <<nodes, undo_history, hist>>
       ELSE LET flow_node == NodeById(nodes, node_id)
                p == flow_node.project_id
            IN  /\ undo_history' = record_undo_operation(undo_history, p,
                       "delete_node",
                       [node_id |-> node_id, text |-> flow_node.text,
                        order |-> flow_node.order, project_id |-> p])
                /\ IF commit
                   THEN /\ nodes' = nodes \ {flow_node}
                        /\ response' = HttpResponse("delete_node", p, 200, "")
                        /\ hist' = NoteEdit(hist, p, "delete_node", NodesOf(nodes, p))
                   ELSE /\ response' = HttpResponse("delete_node", p, 500,
                                                    "Failed to delete flow node")
                        /\ hist' = Note(hist, p, "delete_failed")
                        /\ UNCHANGED nodes
    /\ UNCHANGED <<call, edges, next_id, hearing_logs, req>>

\* flow.py 573-589: the loop over the request's items, on the rows of the
\* session.
RECURSIVE apply_orders(_, _, _)
apply_orders(ns, p, node_orders) ==
    IF node_orders = <<>> THEN ns
    ELSE LET item == Head(node_orders)
             flow_node == CHOOSE n \in ns : n.id = item.id /\ n.project_id = p
         IN  apply_orders((ns \ {flow_node}) \cup {[flow_node EXCEPT !.order = item.order]},
                          p, Tail(node_orders))

\* mutant: the orders set before the missing node was met are kept
reorder_flow_nodes_partial(p, node_orders, commit) ==
    /\ served < MaxSteps
    /\ served' = served + 1
    /\ IF p \notin Projects
       THEN /\ response' = HttpResponse("reorder_nodes", p, 404, "Project not found")
            /\ UNCHANGED <<nodes, undo_history, hist>>
       ELSE LET current_nodes == NodesOf(nodes, p)
                old_orders == [id \in NodeIds(current_nodes) |->
                                  NodeById(current_nodes, id).order]
                Missing(i) == node_orders[i].id \notin NodeIds(current_nodes)
            IN  IF \E i \in 1..Len(node_orders) : Missing(i)
                THEN LET first == CHOOSE i \in 1..Len(node_orders) :
                                      Missing(i) /\ \A j \in 1..(i - 1) : ~Missing(j)
                     IN  /\ response' = HttpResponse("reorder_nodes", p, 404,
                                                     "Flow node not found in project")
                         /\ nodes' = apply_orders(nodes, p,
                                                  SubSeq(node_orders, 1, first - 1))
                         /\ UNCHANGED <<undo_history, hist>>
                ELSE IF commit
                THEN /\ nodes' = apply_orders(nodes, p, node_orders)
                     /\ undo_history' = record_undo_operation(undo_history, p,
                            "reorder_nodes", [old_orders |-> old_orders])
                     /\ response' = HttpResponse("reorder_nodes", p, 200, "")
                     /\ hist' = NoteEdit(hist, p, "reorder_nodes", current_nodes)
                ELSE /\ response' = HttpResponse("reorder_nodes", p, 500,
                                                 "Failed to reorder flow nodes")
                     /\ UNCHANGED <<nodes, undo_history, hist>>
    /\ UNCHANGED <<call, edges, next_id, hearing_logs, req>>

\* flow.py 537-615
reorder_flow_nodes(p, node_orders, commit) ==
    /\ served < MaxSteps
    /\ served' = served + 1
    /\ IF p \notin Projects
       THEN /\ response' = HttpResponse("reorder_nodes", p, 404, "Project not found")
            /\ UNCHANGED <<nodes, undo_history, hist>>
       ELSE LET current_nodes == NodesOf(nodes, p)
                old_orders == [id \in NodeIds(current_nodes) |->
                                  NodeById(current_nodes, id).order]
            IN  IF \E i \in 1..Len(node_orders) :
                       node_orders[i].id \notin NodeIds(current_nodes)
                THEN /\ response' = HttpResponse("reorder_nodes", p, 404,
                                                 "Flow node not found in project")
                     /\ UNCHANGED <<nodes, undo_history, hist>>
                ELSE IF commit
                THEN /\ nodes' = apply_orders(nodes, p, node_orders)
                     /\ undo_history' = record_undo_operation(undo_history, p,
                            "reorder_nodes", [old_orders |-> old_orders])
                     /\ response' = HttpResponse("reorder_nodes", p, 200, "")
                     /\ hist' = NoteEdit(hist, p, "reorder_nodes", current_nodes)
                ELSE /\ response' = HttpResponse("reorder_nodes", p, 500,
                                                 "Failed to reorder flow nodes")
                     /\ UNCHANGED <<nodes, undo_history, hist>>
    /\ UNCHANGED <<call, edges, next_id, hearing_logs, req>>

\* mutant: the undo of a create leaves the created row
undo_rows_keep_created(ns, entry, new_id) ==
    LET data == entry.data
    IN  IF entry.operation = "create_node"
        THEN ns
        ELSE IF entry.operation = "delete_node"
        THEN ns \cup {FlowNode(new_id, data.project_id, data.text, data.order,
                               None, None)}
        ELSE IF entry.operation = "update_node"
        THEN {IF n.id = data.node_id THEN [n EXCEPT !.text = data.old_text] ELSE n :
                 n \in ns}
        ELSE {IF n.id \in DOMAIN data.old_orders
              THEN [n EXCEPT !.order = data.old_orders[n.id]] ELSE n : n \in ns}

\* flow.py 655-685: the rows after the inverse of the recorded operation.
undo_rows(ns, entry, new_id) ==
    LET data == entry.data
    IN  IF entry.operation = "create_node"
        THEN {n \in ns : n.id # data.node_id}
        ELSE IF entry.operation = "delete_node"
        THEN ns \cup {FlowNode(new_id, data.project_id, data.text, data.order,
                               None, None)}
        ELSE IF entry.operation = "update_node"
        THEN {IF n.id = data.node_id THEN [n EXCEPT !.text = data.old_text] ELSE n :
                 n \in ns}
        ELSE {IF n.id \in DOMAIN data.old_orders
              THEN [n EXCEPT !.order = data.old_orders[n.id]] ELSE n : n \in ns}

\* mutant: the undo of a create or an update whose node is gone fails
undo_flow_operation_strict(p, commit) ==
    /\ served < MaxSteps
    /\ served' = served + 1
    /\ IF p \notin Projects
       THEN /\ response' = HttpResponse("undo", p, 404, "Project not found")
            /\ UNCHANGED <<nodes, next_id, undo_history, hist>>
       ELSE IF p \notin DOMAIN undo_history
       THEN /\ response' = HttpResponse("undo", p, 400, "No operation to undo")
            /\ UNCHANGED <<nodes, next_id, undo_history, hist>>
       ELSE LET entry == undo_history[p]
                inserts == IF entry.operation = "delete_node" THEN 1 ELSE 0
                gone == /\ entry.operation \in {"create_node", "update_node"}
                        /\ entry.data.node_id \notin NodeIds(nodes)
            IN  /\ next_id + inserts - 1 <= MaxId
                /\ IF commit /\ ~gone
                   THEN /\ nodes' = undo_rows(nodes, entry, next_id)
                        /\ next_id' = next_id + inserts
                        /\ undo_history' = clear_undo_history(undo_history, p)
                        /\ response' = HttpResponse("undo", p, 200, "")
                        /\ hist' = Note(hist, p, "undo")
                   ELSE /\ response' = HttpResponse("undo", p, 500,
                                                    "Failed to undo operation")
                        /\ UNCHANGED <<nodes, next_id, undo_history, hist>>
    /\ UNCHANGED <<call, edges, hearing_logs, req>>

\* flow.py 618-706
undo_flow_operation(p, commit) ==
    /\ served < MaxSteps
    /\ served' = served + 1
    /\ IF p \notin Projects
       THEN /\ response' = HttpResponse("undo", p, 404, "Project not found")
            /\ UNCHANGED <<nodes, next_id, undo_history, hist>>
       ELSE IF p \notin DOMAIN undo_history
       THEN /\ response' = HttpResponse("undo", p, 400, "No operation to undo")
            /\ UNCHANGED <<nodes, next_id, undo_history, hist>>
       ELSE LET entry == undo_history[p]
                inserts == IF entry.operation = "delete_node" THEN 1 ELSE 0
            IN  /\ next_id + inserts - 1 <= MaxId
                /\ IF commit
                   THEN /\ nodes' = undo_rows(nodes, entry, next_id)
                        /\ next_id' = next_id + inserts
                        /\ undo_history' = clear_undo_history(undo_history, p)
                        /\ response' = HttpResponse("undo", p, 200, "")
                        /\ hist' = Note(hist, p, "undo")
                   ELSE /\ response' = HttpResponse("undo", p, 500,
                                                    "Failed to undo operation")
                        /\ UNCHANGED <<nodes, next_id, undo_history, hist>>
    /\ UNCHANGED <<call, edges, hearing_logs, req>>

(***************************************************************************)
(* routers/flow.py: the bulk saves.  Both replace the nodes of a project   *)
(* by the rows of the request; neither touches undo_history.               *)
(***************************************************************************)
\* dict.get(k, default) on a JSON object of the request body.
get_or(j, k, default) == IF HasKey(j, k) THEN j.v[k].v ELSE default

\* flow.py 457-470 and 750-762: the rows of a bulk save; the texts are taken
\* as they are; absent is what actor and step get when the key is missing.
saved_flow_nodes(p, nodes_data, first_id, absent) ==
    {FlowNode(first_id + i - 1, p, get_or(nodes_data[i], "text", <<>>),
              get_or(nodes_data[i], "order", 0),
              get_or(nodes_data[i], "actor", absent),
              get_or(nodes_data[i], "step", absent)) : i \in 1..Len(nodes_data)}

\* flow.py 425-487
save_flow_nodes(p, nodes_data, commit) ==
    /\ served < MaxSteps
    /\ served' = served + 1
    /\ IF p \notin Projects
       THEN /\ response' = HttpResponse("save_flow_nodes", p, 404, "Project not found")
            /\ UNCHANGED <<nodes, next_id, hist>>
       ELSE /\ next_id + Len(nodes_data) - 1 <= MaxId
            /\ IF commit
               THEN /\ nodes' = (nodes \ NodesOf(nodes, p))
                                   \cup saved_flow_nodes(p, nodes_data, next_id, <<>>)
                    /\ next_id' = next_id + Len(nodes_data)
                    /\ response' = HttpResponse("save_flow_nodes", p, 200, "")
                    /\ hist' = Note(hist, p, "save_flow_nodes")
               ELSE /\ response' = HttpResponse("save_flow_nodes", p, 500,
                                                "Failed to save flow nodes")
                    /\ UNCHANGED <<nodes, next_id, hist>>
    /\ UNCHANGED <<call, edges, hearing_logs, undo_history, req>>

\* flow.py 709-802.  The detail of the answer 500 ends with the text of the
\* exception, see save_edited_flow_detail.
save_edited_flow(p, flow_data, commit) ==
    /\ served < MaxSteps
    /\ served' = served + 1
    /\ IF p \notin Projects
       THEN /\ response' = HttpResponse("save_edited_flow", p, 404, "Project not found")
            /\ UNCHANGED <<nodes, next_id, hist>>
       ELSE IF ~HasKey(flow_data, "flow_nodes") \/ flow_data.v.flow_nodes.jt # "list"
       THEN /\ response' = HttpResponse("save_edited_flow", p, 400,
                   "Invalid flow data: 'flow_nodes' is required and must be a list")
            /\ UNCHANGED <<nodes, next_id, hist>>
       ELSE LET nodes_data == flow_data.v.flow_nodes.v
            IN  /\ next_id + Len(nodes_data) - 1 <= MaxId
                /\ IF commit
                   THEN /\ nodes' = (nodes \ NodesOf(nodes, p))
                                \cup saved_flow_nodes(p, nodes_data, next_id, None)
                        /\ next_id' = next_id + Len(nodes_data)
                        /\ response' = HttpResponse("save_edited_flow", p, 200, "")
                        /\ hist' = Note(hist, p, "save_edited_flow")
                   ELSE /\ response' = HttpResponse("save_edited_flow", p, 500,
                                                    "Failed to save edited flow")
                        /\ UNCHANGED <<nodes, next_id, hist>>
    /\ UNCHANGED <<call, edges, hearing_logs, undo_history, req>>

\* The bodies of the bulk saves: no node, one node, and two nodes of which
\* the second has only its order.
SaveInputs ==
    {<<>>, <<Node(TextUrl, 0, TextA, TextA)>>,
     <<Node(TextA, 0, TextA, TextA), JObj([order |-> JInt(1)])>>}
EditedFlowInputs ==
    {JObj([flow_nodes |-> JList(l)]) : l \in SaveInputs}
    \cup {JObj([actors |-> JList(Actors3)]), JObj([flow_nodes |-> JStr(TextA)])}

(***************************************************************************)
(* The requests the service can receive.                                   *)
(***************************************************************************)
ReorderOrders == {0, 1, 2}
ReorderItems == [id : NodeIds(nodes) \cup {next_id}, order : ReorderOrders]
ReorderInputs ==
    {<<x>> : x \in ReorderItems}
    \cup {<<pair[1], pair[2]>> :
             pair \in {q \in ReorderItems \X ReorderItems : q[1].id < q[2].id}}

\* The edit and undo requests.
Edits ==
    \/ \E id \in 1..MaxId, text \in TextInputs, commit \in BOOLEAN :
          update_flow_node(id, text, commit)
    \/ \E p \in ProjectIds, text \in TextInputs, order \in OrderInputs,
          commit \in BOOLEAN : create_flow_node(p, text, order, commit)
    \/ \E id \in 1..MaxId, commit \in BOOLEAN : delete_flow_node(id, commit)
    \/ \E p \in ProjectIds, node_orders \in ReorderInputs, commit \in BOOLEAN :
          reorder_flow_nodes(p, node_orders, commit)
    \/ \E p \in ProjectIds, commit \in BOOLEAN : undo_flow_operation(p, commit)

\* The whole service, with one generate request at a time and the outcomes
\* of the model request that differ in their effect on the stored flow.
SysOutcomes ==
    {o \in Outcomes :
        \/ o.kind = "timeout"
        \/ o.kind = "response" /\ o.response \in
              {ResponseX, ResponseY, ResponseBadEdge, ResponseGarbage, ResponseGap}}

Next ==
    \/ \E p \in ProjectIds : generate_flow_start(1, p)
    \/ \E o \in SysOutcomes : generate_flow_attempt_fails(1, o)
    \/ \E o \in SysOutcomes, commit1 \in BOOLEAN, commit2 \in BOOLEAN :
          generate_flow_attempt_succeeds(1, o, commit1, commit2)
    \/ Edits

Spec == Init /\ [][Next]_vars

\* The generation service alone, with every outcome of the model request.
NextAI ==
    \/ \E p \in Projects, content \in LogInputs : add_hearing_log(p, content)
    \/ \E p \in ProjectIds : generate_flow_start(1, p)
    \/ \E o \in Outcomes : generate_flow_attempt_fails(1, o)
    \/ \E o \in Outcomes, commit1 \in BOOLEAN, commit2 \in BOOLEAN :
          generate_flow_attempt_succeeds(1, o, commit1, commit2)

SpecAI == Init /\ [][NextAI]_vars

\* Two generate requests that can overlap: each is one coroutine of the one
\* event loop (main.py 201-207 runs a single process), so the steps of the
\* two interleave at the awaits of generate_business_flow and nowhere else.
NextConcurrent ==
    \/ \E r \in Reqs, p \in ProjectIds : generate_flow_start(r, p)
    \/ \E r \in Reqs, o \in SysOutcomes : generate_flow_attempt_fails(r, o)
    \/ \E r \in Reqs, o \in SysOutcomes, commit1 \in BOOLEAN, commit2 \in BOOLEAN :
          generate_flow_attempt_succeeds(r, o, commit1, commit2)

\* Two requests for project 1 are in flight: both have read the hearing logs
\* and await their first model request.
InitConcurrent ==
    /\ nodes = {}
    /\ edges = [p \in Projects |-> <<>>]
    /\ next_id = 1
    /\ hearing_logs = [p \in Projects |-> IF p = 1 THEN <<TextA>> ELSE <<>>]
    /\ undo_history = [p \in {} |-> 0]
    /\ req = [r \in Reqs |-> [IdleReq EXCEPT !.project_id = 1, !.pc = "calling"]]
    /\ response = NoResponse
    /\ served = Cardinality(Reqs)
    /\ hist = [p \in Projects |-> [ops |-> <<>>, before |-> {}]]
    /\ call = NoCall

SpecConcurrent == InitConcurrent /\ [][NextConcurrent]_vars

\* The node edits, the undo and the bulk saves, without flow generation.
NextSave ==
    \/ Edits
    \/ \E p \in ProjectIds, nodes_data \in SaveInputs, commit \in BOOLEAN :
          save_flow_nodes(p, nodes_data, commit)
    \/ \E p \in ProjectIds, flow_data \in EditedFlowInputs, commit \in BOOLEAN :
          save_edited_flow(p, flow_data, commit)

\* The service after a restart: the database may hold a node of project 1
\* from before, the undo dictionary of the new process is empty.
InitSave ==
    /\ nodes \in {{}, {FlowNode(1, 1, TextA, 0, None, None)}}
    /\ next_id = Cardinality(nodes) + 1
    /\ edges = [p \in Projects |-> <<>>]
    /\ hearing_logs = [p \in Projects |-> IF p = 1 THEN <<TextA>> ELSE <<>>]
    /\ undo_history = [p \in {} |-> 0]
    /\ req = [r \in Reqs |-> IdleReq]
    /\ response = NoResponse
    /\ served = 0
    /\ hist = [p \in Projects |-> [ops |-> <<>>, before |-> {}]]
    /\ call = NoCall

SpecSave == InitSave /\ [][NextSave]_vars

(***************************************************************************)
(* The response validator on its own: ai.py 137-140, _parse_ai_response    *)
(* followed by _validate_flow_structure, applied to one response.          *)
(***************************************************************************)
\* ai.py 137-143: the flow the two steps return, or the error they raise.
validated_flow(ai_response) ==
    LET parsed == parse_ai_response(ai_response)
    IN  IF parsed.error # NoError THEN parsed
        ELSE IF validate_flow_structure(parsed.flow_data) # NoError
        THEN Failed(validate_flow_structure(parsed.flow_data))
        ELSE parsed

\* ai.py 387-399: the details a node's actor or step error is raised with.
NoDetails == [kind |-> "other"]
error_details(ai_response) ==
    LET err == parse_ai_response(ai_response).error
        parsed_data == json_loads(ai_response)
    IN  IF err.exc = "ValidationError" /\ err.field \in {"node_i_actor", "node_i_step"}
        THEN LET node == parsed_data.v.flow_nodes.v[err.index + 1]
                 actors == parsed_data.v.actors.v
                 steps == parsed_data.v.steps.v
             IN  IF err.field = "node_i_actor"
                 THEN [kind |-> "actor", actor_value |-> node.v.actor,
                       valid_actors |-> [k \in 1..Len(actors) |-> actors[k].v.name]]
                 ELSE [kind |-> "step", step_value |-> node.v.step,
                       valid_steps |-> [k \in 1..Len(steps) |-> steps[k].v.name]]
        ELSE NoDetails

\* The responses the validator is applied to.  A name is a run of the
\* letter a, so that names of different lengths differ.
Iota(n) == [i \in 1..n |-> i - 1]
NameOf(k) == [i \in 1..k |-> "a"]
ActorsN(n) == [k \in 1..n |-> Actor(NameOf(k))]
StepsN(n) == [k \in 1..n |-> Step(NameOf(k))]
NodesOrdered(orders) ==
    [i \in 1..Len(orders) |-> Node(TextA, orders[i], NameOf(1), NameOf(1))]
NodesNamed(i, actor, step) ==
    [n \in 1..MinNodes |->
        IF n = i THEN Node(TextA, n - 1, NameOf(actor), NameOf(step))
        ELSE Node(TextA, n - 1, NameOf(1), NameOf(1))]
FlowOf(actors, steps, flow_nodes, edge_list) ==
    Response("", JObj([actors |-> JList(actors), steps |-> JList(steps),
                       flow_nodes |-> JList(flow_nodes), edges |-> edge_list]), "")

ActorCounts == {MinActors - 1, MinActors, MaxActors, MaxActors + 1}
StepCounts == {MinSteps - 1, MinSteps, MaxStepCount, MaxStepCount + 1}
NodeCounts == {MinNodes - 1, MinNodes, MaxNodes, MaxNodes + 1}
\* everything valid but, possibly, a count
CountInputs ==
    {FlowOf(ActorsN(a), StepsN(t), NodesOrdered(Iota(n)), JList(<<Edge(0, 1)>>)) :
        a \in ActorCounts, t \in StepCounts, n \in NodeCounts}

\* the edge lists: none, two well-formed edges, an edge without to_order, an
\* edge whose from_order is a string, an edge that is no object, a
\* well-formed edge to an order no node has, and a value that is no list
MalformedEdges ==
    {JObj([from_order |-> JInt(1)]),
     JObj([from_order |-> JStr(TextA), to_order |-> JInt(1)]),
     JInt(0)}
EdgeLists ==
    {JList(<<>>), JList(<<Edge(0, 1), EdgeIf(1, 2, TextUrl)>>),
     JList(<<Edge(0, MaxNodes)>>), JStr(TextA)}
    \cup {JList(<<Edge(0, 1), e>>) : e \in MalformedEdges}
\* three nodes with any order values from 0 to 3
OrderLists == [1..MinNodes -> 0..MinNodes]
OrderingInputs ==
    {FlowOf(ActorsN(MinActors), StepsN(MinSteps), NodesOrdered(o), e) :
        o \in OrderLists, e \in EdgeLists}

\* one node names the k-th actor and the j-th step, declared or not
NameInputs ==
    {FlowOf(ActorsN(a), StepsN(MinSteps), NodesNamed(i, k, j), JList(<<>>)) :
        a \in {MinActors, MaxActors}, i \in 1..MinNodes,
        k \in 1..(MaxActors + 1), j \in {1, MinSteps, MinSteps + 1}}

\* a valid flow and a flow with a gap in its orders, bare or between an
\* opening fence, tagged json or untagged, and a closing fence
FenceInputs ==
    {Response(o, r.body, c) : o \in {"", "fence_json", "fence"}, c \in {"", "fence"},
                              r \in {ResponseX, ResponseGap}}

ValidatorInputs ==
    CountInputs \cup OrderingInputs \cup NameInputs \cup ModelResponses \cup FenceInputs

InitValidator ==
    /\ InitService
    /\ call \in {[fn |-> "validate", state |-> "called", arg |-> r] :
                    r \in ValidatorInputs}

validate_response ==
    /\ call.fn = "validate" /\ call.state = "called"
    /\ call' = [fn |-> "validate", state |-> "returned", arg |-> call.arg,
                error |-> validated_flow(call.arg).error,
                flow_data |-> validated_flow(call.arg).flow_data,
                details |-> error_details(call.arg)]
    /\ UNCHANGED <<nodes, edges, next_id, hearing_logs, undo_history, req,
                   response, served, hist>>

NextValidator == validate_response

SpecValidator == InitValidator /\ [][NextValidator]_vars

(***************************************************************************)
(* utils/sanitizer.py on its own: sanitize_http_to_https applied to a      *)
(* text, and applied again to its own result.  The inputs are None and     *)
(* every text of at most MaxLen tokens.                                    *)
(***************************************************************************)
Tokens == {"http://", "HTTP://", "https://", "/", "?", " "} \cup WordTokens
SanitizerInputs ==
    {None} \cup UNION {[1..n -> Tokens] : n \in 0..MaxLen}

InitSanitizer ==
    /\ InitService
    /\ call \in {[fn |-> "sanitize", state |-> "called", arg |-> text] :
                    text \in SanitizerInputs}

\* sanitizer.py 8-28: the first call.
sanitize_text ==
    /\ call.fn = "sanitize" /\ call.state = "called"
    /\ call' = [fn |-> "sanitize", state |-> "returned", arg |-> call.arg,
                result |-> sanitize_http_to_https(call.arg)]
    /\ UNCHANGED <<nodes, edges, next_id, hearing_logs, undo_history, req,
                   response, served, hist>>

\* sanitizer.py 8-28: the call on the result of the first call.
sanitize_result ==
    /\ call.fn = "sanitize" /\ call.state = "returned"
    /\ call' = [fn |-> "sanitize", state |-> "returned_twice",
                arg |-> call.arg, result |-> call.result,
                again |-> sanitize_http_to_https(call.result)]
    /\ UNCHANGED <<nodes, edges, next_id, hearing_logs, undo_history, req,
                   response, served, hist>>

NextSanitizer == sanitize_text \/ sanitize_result

SpecSanitizer == InitSanitizer /\ [][NextSanitizer]_vars

(***************************************************************************)
(* utils/error_handlers.py 29-185: the decorator handle_database_errors.   *)
(* A call is the wrapped operation's outcome (it returns, or raises an     *)
(* exception of some class), the place of the Session among the arguments, *)
(* the kind of wrapper and the name of the operation.  Of sqlalchemy.exc,   *)
(* IntegrityError, OperationalError, TimeoutError and DisconnectionError   *)
(* are subclasses of SQLAlchemyError, and none is a subclass of another.   *)
(***************************************************************************)
DatabaseFaults ==
    {"IntegrityError", "OperationalError", "TimeoutError", "DisconnectionError",
     "SQLAlchemyError"}
\* what the wrapped operation can end in; "HTTPException" stands for every
\* exception that is neither a database fault nor a BusinessFlowException
OperationOutcomes ==
    {"return", "BusinessFlowException", "HTTPException"} \cup DatabaseFaults
SessionPlaces == {"kwargs", "args", "absent"}
Wrappers == {"async_wrapper", "sync_wrapper"}
OperationNames ==
    {"list projects", "create project", "get project", "update project",
     "delete project"}

\* error_handlers.py 243-263
extract_db_session(place) == place # "absent"

\* error_handlers.py 40-105 and 111-176: the except clause that handles the
\* exception, the first in the order of the source whose class matches.
database_except_clause(e) ==
    IF e = "BusinessFlowException" THEN "reraise"
    ELSE IF e = "IntegrityError" THEN "integrity"
    ELSE IF e = "OperationalError" THEN "operational"
    ELSE IF e = "TimeoutError" THEN "timeout"
    ELSE IF e = "DisconnectionError" THEN "disconnection"
    ELSE IF e = "SQLAlchemyError" THEN "sqlalchemy"
    ELSE "unexpected"

\* the clauses whose body calls db.rollback(): all but the clause of
\* DisconnectionError (error_handlers.py 76-82 and 147-153)
clause_rolls_back(clause) ==
    clause \in {"integrity", "operational", "timeout", "sqlalchemy", "unexpected"}

database_error_message(clause) ==
    IF clause = "integrity" THEN "Data integrity constraint violated during"
    ELSE IF clause = "operational"
    THEN "Database connection or operational error during"
    ELSE IF clause = "timeout" THEN "Database operation timed out during"
    ELSE IF clause = "disconnection" THEN "Database connection lost during"
    ELSE IF clause = "sqlalchemy" THEN "Database error occurred during"
    ELSE "Unexpected error occurred during"

\* What one call of the wrapper does, in order, after the operation ended.
wrapper_steps(outcome, place) ==
    LET clause == database_except_clause(outcome)
    IN  IF outcome = "return" THEN <<"return">>
        ELSE IF clause = "reraise" THEN <<"raise BusinessFlowException">>
        ELSE IF clause_rolls_back(clause) /\ extract_db_session(place)
        THEN <<"db.rollback()", "raise DatabaseError">>
        ELSE <<"raise DatabaseError">>

InitHandlers ==
    /\ InitService
    /\ call \in {[fn |-> "handle_database_errors", state |-> "called",
                  outcome |-> e, place |-> s, wrapper |-> w, operation_name |-> n] :
                    e \in OperationOutcomes, s \in SessionPlaces, w \in Wrappers,
                    n \in OperationNames}

call_wrapped_operation ==
    /\ call.fn = "handle_database_errors" /\ call.state = "called"
    /\ call' = [fn |-> "handle_database_errors", state |-> "returned",
                outcome |-> call.outcome, place |-> call.place,
                wrapper |-> call.wrapper, operation_name |-> call.operation_name,
                steps |-> wrapper_steps(call.outcome, call.place),
                message |-> database_error_message(database_except_clause(call.outcome))]
    /\ UNCHANGED <<nodes, edges, next_id, hearing_logs, undo_history, req,
                   response, served, hist>>

NextHandlers == call_wrapped_operation

SpecHandlers == InitHandlers /\ [][NextHandlers]_vars

(***************************************************************************)
(* main.py 79-140 and exceptions.py 77-111: the bodies of the error        *)
(* responses.  A body is [keys, ...]: keys are its top-level keys; a body  *)
(* with the key "error" carries the value of that key.  Messages, codes and *)
(* details are sequences of their parts, and each part is a text: a fixed  *)
(* part is the text of one token, the text of an internal exception is     *)
(* another part.                                                           *)
(***************************************************************************)
ExceptionTexts == {TextA, TextB}
\* config.py 28: settings.environment is any string, "development" by default
Environments == {"production", "development", "test"}

StrDetail(parts) == [kind |-> "str", v |-> parts]
DictDetail(keys) == [kind |-> "dict", keys |-> keys]
EnvelopeDetail(code, message, details) ==
    [kind |-> "dict", keys |-> {"error"},
     error |-> [code |-> code, message |-> message, details |-> details]]

HTTPException(status_code, detail) ==
    [exc |-> "HTTPException", status_code |-> status_code, detail |-> detail]
BusinessFlowException(error_code, message, details) ==
    [exc |-> "BusinessFlowException", error_code |-> error_code,
     message |-> message, details |-> details]

BusinessCodes ==
    {"VALIDATION_ERROR", "RESOURCE_NOT_FOUND", "AI_SERVICE_ERROR", "DATABASE_ERROR",
     "CONFIGURATION_ERROR", "BUSINESS_FLOW_ERROR"}
RouterStatusCodes == {400, 401, 404, 500}

\* Where an error response comes from: an HTTPException a router raises
\* with a fixed text, the dict detail of hearing.py 256, the except clause of
\* save_edited_flow, a BusinessFlowException, the DatabaseError made by
\* handle_database_errors, an exception nothing catches, and a request body
\* the schema rejects.
ErrorCases ==
    [origin : {"router"}, status_code : RouterStatusCodes]
    \cup [origin : {"transcription", "save_edited_flow", "unhandled", "request_body"}]
    \cup [origin : {"business"}, error_code : BusinessCodes]
    \cup [origin : {"handle_database_errors"},
          outcome : DatabaseFaults \cup {"HTTPException"},
          operation_name : OperationNames]

\* the cases in which an internal exception with a text is behind the error
InternalCases ==
    {c \in ErrorCases :
        c.origin \in {"save_edited_flow", "unhandled", "handle_database_errors"}}

\* What reaches the handlers of main.py; text is str(e) of the internal
\* exception, if there is one.
raised_error(c, text) ==
    IF c.origin = "router"
    THEN HTTPException(c.status_code, StrDetail(<<<<"fixed text">>>>))
    ELSE IF c.origin = "transcription"
    THEN HTTPException(502, DictDetail({"message", "response"}))
    ELSE IF c.origin = "save_edited_flow"
    THEN HTTPException(500, StrDetail(<<<<"Failed to save edited flow: ">>, text>>))
    ELSE IF c.origin = "business"
    THEN BusinessFlowException(c.error_code, <<<<"fixed text">>>>, <<>>)
    ELSE IF c.origin = "handle_database_errors"
    THEN BusinessFlowException("DATABASE_ERROR",
             <<<<database_error_message(database_except_clause(c.outcome))>>,
               <<c.operation_name>>>>,
             <<text, <<c.operation_name>>>>)
    ELSE IF c.origin = "unhandled"
    THEN [exc |-> "Exception", text |-> text]
    ELSE [exc |-> "RequestValidationError"]

\* exceptions.py 77-111
create_http_exception(business_exception) ==
    LET code == business_exception.error_code
        status_code == IF code = "VALIDATION_ERROR" THEN 400
                       ELSE IF code = "RESOURCE_NOT_FOUND" THEN 404
                       ELSE 500
    IN  HTTPException(status_code,
                      EnvelopeDetail(<<code>>, business_exception.message,
                                     business_exception.details))

JSONResponse(status_code, content) == [status_code |-> status_code, content |-> content]

\* main.py 80-89
business_exception_handler(e) ==
    LET http_exc == create_http_exception(e)
    IN  JSONResponse(http_exc.status_code,
                     [keys |-> http_exc.detail.keys, error |-> http_exc.detail.error])

\* main.py 92-113
http_exception_handler(e) ==
    IF e.detail.kind = "dict" /\ "error" \in e.detail.keys
    THEN JSONResponse(e.status_code, [keys |-> e.detail.keys, error |-> e.detail.error])
    ELSE JSONResponse(e.status_code,
             [keys |-> {"error"},
              error |-> [code |-> <<"HTTP_", e.status_code>>,
                         message |-> IF e.detail.kind = "str" THEN e.detail.v
                                     ELSE <<<<"str(dict)">>>>,
                         details |-> <<>>]])

\* main.py 117-139
general_exception_handler(e, environment) ==
    JSONResponse(500,
        [keys |-> {"error"},
         error |-> [code |-> <<"INTERNAL_SERVER_ERROR">>,
                    message |-> IF environment = "production"
                                THEN <<<<"An internal server error occurred">>>>
                                ELSE <<<<"Internal server error: ">>, e.text>>,
                    details |-> <<<<environment>>>>]])

\* main.py 80, 92 and 117 register handlers for BusinessFlowException,
\* HTTPException and Exception only; a rejected request body is answered by
\* the framework's own handler of RequestValidationError: 422 and a body
\* with the one key "detail".
error_response(e, environment) ==
    IF e.exc = "BusinessFlowException" THEN business_exception_handler(e)
    ELSE IF e.exc = "HTTPException" THEN http_exception_handler(e)
    ELSE IF e.exc = "RequestValidationError"
    THEN JSONResponse(422, [keys |-> {"detail"}])
    ELSE general_exception_handler(e, environment)

InitErrors ==
    /\ InitService
    /\ call \in {[fn |-> "error_response", state |-> "called", case |-> c,
                  environment |-> env] : c \in ErrorCases, env \in Environments}

\* The request is answered, once for each text the internal exception can
\* have.
answer_error ==
    /\ call.fn = "error_response" /\ call.state = "called"
    /\ call' = [fn |-> "error_response", state |-> "returned", case |-> call.case,
                environment |-> call.environment,
                responses |-> [text \in ExceptionTexts |->
                    error_response(raised_error(call.case, text), call.environment)]]
    /\ UNCHANGED <<nodes, edges, next_id, hearing_logs, undo_history, req,
                   response, served, hist>>

NextErrors == answer_error

SpecErrors == InitErrors /\ [][NextErrors]_vars

(***************************************************************************)
(* Claims.                                                                 *)
(***************************************************************************)
TerminalErrors == {"ValidationError", "AIServiceError"}

\* C1: an attempt whose response fails validation (parsing or the structure
\* check) or is empty ends generate_business_flow at once with that error:
\* the request is done after this one more model request, and a request that
\* is done makes no further model request.
C1_ValidationFailureIsNotRetried ==
    [][/\ \A o \in Outcomes :
             (generate_flow_attempt_fails(1, o)
                 /\ attempt_errors[o].exc \in TerminalErrors)
             => (/\ req'[1].pc = "done"
                 /\ req'[1].raised = attempt_errors[o]
                 /\ req'[1].requests = req[1].requests + 1
                 /\ (req[1].attempt = 0 => req'[1].requests = 1))
        /\ (req[1].pc = "done" => req'[1].requests \in {req[1].requests, 0})]_vars

\* C1 witness: a request ended by a validation error after exactly one model
\* request.
C1_Witness ==
    /\ req[1].pc = "done"
    /\ req[1].raised = ValidationError("node_ordering", -1)
    /\ req[1].requests = 1

RetryableKinds == {"timeout", "rate_limit", "connection"}

\* C2: one call of generate_business_flow makes at most 3 model requests and
\* then ends: while the call is running it has made fewer than 3 requests,
\* one per attempt begun, so that the third request is the last; a call that
\* failed on a timeout, a rate limit or a connection error has made exactly 3
\* model requests.
C2_AtMostThreeRequests ==
    /\ req[1].requests <= 3
    /\ (req[1].pc = "calling" =>
           req[1].requests = req[1].attempt /\ req[1].attempt < 3)
    /\ (req[1].pc = "done" => req[1].requests \in {req[1].attempt, req[1].attempt + 1})
    /\ ((req[1].pc = "done" /\ req[1].raised.exc = "AIServiceError"
           /\ req[1].raised.field \in RetryableKinds)
        => req[1].requests = 3)

\* C2 witness: a call that failed after three rate-limited attempts.
C2_Witness ==
    /\ req[1].pc = "done"
    /\ req[1].raised = AIServiceError("rate_limit")
    /\ req[1].requests = 3
    /\ req[1].sleeps = <<1, 2>>

\* What generate_flow can meet once the service has returned a flow: a
\* failing commit, or a malformed edge.
GenerateDbErrors == {"SQLAlchemyError", "KeyError"}

\* C3: a step of a generate request that does not end it with status 200,
\* and that meets no error of the replacement itself (so the request goes on,
\* or ends because the project is unknown or has no hearing logs, because
\* the model call failed, or because the response failed validation), leaves
\* the persisted nodes and edges of every project as they were.
C3_FailedGenerateLeavesFlowUnchanged ==
    [][(/\ req'[1] # req[1]
        /\ ~(req'[1].pc = "done" /\ req'[1].status = 200)
        /\ req'[1].raised.exc \notin GenerateDbErrors)
       => (nodes' = nodes /\ edges' = edges)]_vars

\* a generate request refused for its node orders, on a project that has a
\* flow with edges
C3_Witness ==
    /\ req[1].pc = "done"
    /\ req[1].project_id = 1
    /\ req[1].raised = ValidationError("node_ordering", -1)
    /\ Cardinality(NodesOf(nodes, 1)) = 3
    /\ Len(edges[1]) = 2

\* C4: a generate request that ends with an error of the replacement (a
\* failing commit of the nodes or of the edges, or an edge that cannot be
\* inserted) leaves the persisted nodes and edges as they were before.
C4_EdgeFailureRollsBackReplacement ==
    [][(/\ req'[1] # req[1]
        /\ req'[1].pc = "done"
        /\ req'[1].raised.exc \in GenerateDbErrors)
       => (nodes' = nodes /\ edges' = edges)]_vars

\* the state the replacement leaves when the edges fail: a 500 answer, the
\* new nodes persisted, no edge
C4_PartialFlowVisible ==
    /\ req[1].pc = "done"
    /\ req[1].status = 500
    /\ req[1].raised = KeyError
    /\ Cardinality(NodesOf(nodes, req[1].project_id)) = 3
    /\ edges[req[1].project_id] = <<>>
    /\ hist[req[1].project_id].ops = <<"generate", "generate_failed">>

Last(seq) == seq[Len(seq)]

\* What the database is to hold of a validated flow: the fields of its
\* nodes, and its edges by from/to order.
FlowFields(flow_nodes) ==
    {[text |-> flow_nodes[i].v.text.v, order |-> flow_nodes[i].v.order.v,
      actor |-> flow_nodes[i].v.actor.v, step |-> flow_nodes[i].v.step.v] :
        i \in 1..Len(flow_nodes)}
NodeFields(ns) ==
    {[text |-> n.text, order |-> n.order, actor |-> n.actor, step |-> n.step] :
        n \in ns}
EdgeFields(flow_edges) ==
    {[from_node_order |-> flow_edges[i].v.from_order.v,
      to_node_order |-> flow_edges[i].v.to_order.v,
      condition |-> IF HasKey(flow_edges[i], "condition")
                    THEN flow_edges[i].v.condition.v ELSE None] :
        i \in 1..Len(flow_edges)}

\* C5: a generate request for project p that is answered 200 with the
\* validated flow of outcome o leaves p with exactly one node per node of the
\* flow, with the flow's text, order, actor and step, none of them a node p
\* had before, and with exactly the flow's edges by from/to order; the nodes
\* and edges of the other projects are as before.
C5_GenerateReplacesFlow ==
    [][(req[1].pc = "calling" /\ req'[1].pc = "done" /\ req'[1].status = 200) =>
       \A o \in DOMAIN accepted_flows, commit1 \in BOOLEAN, commit2 \in BOOLEAN :
          generate_flow_attempt_succeeds(1, o, commit1, commit2)
          => LET p == req[1].project_id
                 flow == accepted_flows[o]
                 created == NodesOf(nodes', p)
             IN  /\ Cardinality(created) = Len(flow.flow_nodes)
                 /\ NodeFields(created) = FlowFields(flow.flow_nodes)
                 /\ NodeIds(created) \cap NodeIds(nodes) = {}
                 /\ Len(edges'[p]) = Len(flow.edges)
                 /\ {edges'[p][i] : i \in 1..Len(edges'[p])} = EdgeFields(flow.edges)
                 /\ \A q \in Projects \ {p} :
                       NodesOf(nodes', q) = NodesOf(nodes, q) /\ edges'[q] = edges[q]]_vars

\* project 1 had a node of its own, project 2 has one, and a generate
\* request for project 1 has stored the three nodes and two edges of a flow
C5_Witness ==
    /\ req[1].pc = "done" /\ req[1].status = 200 /\ req[1].project_id = 1
    /\ hist[1].ops = <<"create_node", "generate">>
    /\ NodeIds(NodesOf(nodes, 1)) = {3, 4, 5}
    /\ \E n \in NodesOf(nodes, 1) : n.text = TextUrl /\ n.actor = TextA
    /\ Len(edges[1]) = 2
    /\ NodesOf(nodes, 2) # {}

\* C6: when the last thing that happened to project p's flow or undo entry is
\* a successful generate, p has no undo entry (so that an undo request
\* answers 400 "No operation to undo").
C6_GenerateClearsUndo ==
    \A p \in Projects :
        (hist[p].ops # <<>> /\ Last(hist[p].ops) = "generate")
        => p \notin DOMAIN undo_history

\* an undo request right after a generation is answered 200 and undoes the
\* create that came before the generation
C6_UndoAfterGenerateSucceeds ==
    /\ hist[1].ops = <<"create_node", "generate", "undo">>
    /\ response = HttpResponse("undo", 1, 200, "")

\* The events of a successful node edit; each is named as the operation the
\* edit records.
NodeEdits == {"create_node", "update_node", "delete_node", "reorder_nodes"}
TextAndOrder(ns) == {[text |-> n.text, order |-> n.order] : n \in ns}

\* C7: when the last two events of project p are two successful node edits,
\* p's one undo entry is the entry of the second edit; and when a successful
\* undo follows them, the entry is gone and p's nodes are the nodes from
\* before the second edit, that is with the effect of the first edit (for a
\* second edit that is a delete: as many nodes with the same texts and
\* orders, and every other node as it was).
C7_UndoRevertsOnlyLastEdit ==
    \A p \in Projects :
        LET ops == hist[p].ops
            now == NodesOf(nodes, p)
            before == hist[p].before
        IN  /\ (Len(ops) >= 2 /\ ops[Len(ops)] \in NodeEdits
                              /\ ops[Len(ops) - 1] \in NodeEdits)
               => (p \in DOMAIN undo_history
                      /\ undo_history[p].operation = ops[Len(ops)])
            /\ (Len(ops) = 3 /\ ops[1] \in NodeEdits /\ ops[2] \in NodeEdits
                             /\ ops[3] = "undo")
               => /\ p \notin DOMAIN undo_history
                  /\ IF ops[2] = "delete_node"
                     THEN /\ Cardinality(now) = Cardinality(before)
                          /\ TextAndOrder(now) = TextAndOrder(before)
                          /\ Cardinality(before \ now) = 1
                     ELSE now = before

\* two creates and one undo: only the first created node is left
C7_Witness ==
    /\ hist[1].ops = <<"create_node", "create_node", "undo">>
    /\ response = HttpResponse("undo", 1, 200, "")
    /\ NodeIds(NodesOf(nodes, 1)) = {1}

\* The project has nothing to undo: nothing was recorded for it, or nothing
\* since its last successful undo.
NothingRecorded(p) ==
    LET ops == hist[p].ops
    IN  \/ ops = <<>>
        \/ Last(ops) = "undo"
        \/ Len(ops) < 3 /\ \A i \in 1..Len(ops) : ops[i] \in {"generate", "generate_failed"}

\* C8: an undo request for a project that has nothing to undo (see
\* NothingRecorded) is answered 400 "No operation to undo" and changes
\* neither the nodes nor the undo entries.
C8_SecondUndoFails ==
    [][\A p \in Projects, commit \in BOOLEAN :
          (NothingRecorded(p) /\ undo_flow_operation(p, commit))
          => /\ response' = HttpResponse("undo", p, 400, "No operation to undo")
             /\ nodes' = nodes
             /\ undo_history' = undo_history]_vars

\* a create, its undo, and a second undo that was refused
C8_Witness ==
    /\ hist[1].ops = <<"create_node", "undo">>
    /\ response = HttpResponse("undo", 1, 400, "No operation to undo")
    /\ served = 3

\* C9: when the last two events of project p are a successful create, update
\* or reorder and then a successful undo, p's nodes are exactly the nodes
\* from before that edit (ids, texts, orders and every other field).
C9_UndoRestoresNodeSet ==
    \A p \in Projects :
        LET ops == hist[p].ops
        IN  (Len(ops) >= 2 /\ Last(ops) = "undo"
                /\ ops[Len(ops) - 1] \in {"create_node", "update_node", "reorder_nodes"})
            => NodesOf(nodes, p) = hist[p].before

\* a generated flow, a reorder of it and the undo of the reorder
C9_Witness ==
    /\ hist[1].ops = <<"generate", "reorder_nodes", "undo">>
    /\ response = HttpResponse("undo", 1, 200, "")
    /\ Cardinality(NodesOf(nodes, 1)) = 3

\* C10: when the last two events of project p are a successful delete and
\* then a successful undo, p's nodes are the nodes from before the delete but
\* for one node, which has a new id and the old text, order, actor and step.
C10_UndoOfDeleteRestoresNode ==
    \A p \in Projects :
        LET ops == hist[p].ops
            now == NodesOf(nodes, p)
            before == hist[p].before
        IN  (Len(ops) >= 2 /\ Last(ops) = "undo" /\ ops[Len(ops) - 1] = "delete_node")
            => /\ Cardinality(now) = Cardinality(before)
               /\ \E n \in before, m \in now :
                     /\ before \ now = {n}
                     /\ now \ before = {m}
                     /\ m.id \notin NodeIds(before)
                     /\ m.text = n.text /\ m.order = n.order
                     /\ m.actor = n.actor /\ m.step = n.step

\* a node of a generated flow was deleted and restored: it has lost its actor
C10_RestoredNodeLostActor ==
    /\ hist[1].ops = <<"generate", "delete_node", "undo">>
    /\ response = HttpResponse("undo", 1, 200, "")
    /\ \E m \in NodesOf(nodes, 1) : m.id = 4 /\ m.actor = None /\ m.step = None

\* The validator has returned; it has returned a flow.
Returned == call.fn = "validate" /\ call.state = "returned"
Accepted == Returned /\ call.error = NoError
OrderValues(flow_nodes) == {flow_nodes[i].v.order.v : i \in 1..Len(flow_nodes)}

\* C11: the N nodes of a flow the validator returns have N different order
\* values, which are exactly 0, 1, ..., N-1.  (The nodes persisted by the
\* generation carry these order values, see C5.)
C11_AcceptedOrdersAreSequential ==
    Accepted =>
        LET flow_nodes == call.flow_data.flow_nodes
        IN  /\ OrderValues(flow_nodes) = 0..(Len(flow_nodes) - 1)
            /\ \A i, j \in 1..Len(flow_nodes) :
                  i # j => flow_nodes[i].v.order.v # flow_nodes[j].v.order.v

\* a flow is returned whose nodes come in the order 2, 0, 1
C11_Witness ==
    /\ Accepted
    /\ Len(call.flow_data.flow_nodes) = 3
    /\ call.flow_data.flow_nodes[1].v.order.v = 2
    /\ call.flow_data.flow_nodes[2].v.order.v = 0

DeclaredNames(declared) == {declared[k].v.name : k \in 1..Len(declared)}
NameList(declared) == [k \in 1..Len(declared) |-> declared[k].v.name]

\* C12: in a flow the validator returns every node's actor is a declared
\* actor name and every node's step a declared step name; and a response
\* that is valid but for a node naming an undeclared actor or step is refused
\* with a ValidationError for the first such node (its zero-based index, the
\* field node_i_actor when its actor is undeclared and node_i_step otherwise),
\* raised with the bad value and the list of the declared names.
C12_UndeclaredNamesAreRefused ==
    /\ Accepted =>
          \A i \in 1..Len(call.flow_data.flow_nodes) :
              /\ call.flow_data.flow_nodes[i].v.actor
                    \in DeclaredNames(call.flow_data.actors)
              /\ call.flow_data.flow_nodes[i].v.step
                    \in DeclaredNames(call.flow_data.steps)
    /\ (Returned /\ call.arg \in NameInputs) =>
          LET body == call.arg.body.v
              actors == body.actors.v
              steps == body.steps.v
              flow_nodes == body.flow_nodes.v
              BadActor(i) == flow_nodes[i].v.actor \notin DeclaredNames(actors)
              BadStep(i) == flow_nodes[i].v.step \notin DeclaredNames(steps)
              bad == {i \in 1..Len(flow_nodes) : BadActor(i) \/ BadStep(i)}
          IN  IF bad = {} THEN call.error = NoError
              ELSE LET i == CHOOSE x \in bad : \A y \in bad : x <= y
                   IN  /\ call.error.exc = "ValidationError"
                       /\ call.error.index = i - 1
                       /\ IF BadActor(i)
                          THEN /\ call.error.field = "node_i_actor"
                               /\ call.details =
                                     [kind |-> "actor",
                                      actor_value |-> flow_nodes[i].v.actor,
                                      valid_actors |-> NameList(actors)]
                          ELSE /\ call.error.field = "node_i_step"
                               /\ call.details =
                                     [kind |-> "step",
                                      step_value |-> flow_nodes[i].v.step,
                                      valid_steps |-> NameList(steps)]

\* the third node names the fourth of three declared actors
C12_Witness ==
    /\ Returned
    /\ call.error = ValidationError("node_i_actor", 2)
    /\ call.details.actor_value = JStr(NameOf(4))
    /\ Len(call.details.valid_actors) = 3

C14_DuplicateOrdersAreNamed ==
    (Returned /\ call.arg \in OrderingInputs) =>
        LET flow_nodes == call.arg.body.v.flow_nodes.v
            N == Len(flow_nodes)
            duplicate == \E i, j \in 1..N :
                            i # j /\ flow_nodes[i].v.order.v = flow_nodes[j].v.order.v
        IN  IF duplicate THEN call.error = ValidationError("duplicate_orders", -1)
            ELSE IF OrderValues(flow_nodes) # 0..(N - 1)
            THEN call.error = ValidationError("node_ordering", -1)
            ELSE call.error = NoError

\* the order values 0, 0, 1 are refused as node_ordering
C14_DuplicateReportedAsOrdering ==
    /\ Returned
    /\ call.arg \in OrderingInputs
    /\ call.arg.body.v.flow_nodes.v[1].v.order.v = 0
    /\ call.arg.body.v.flow_nodes.v[2].v.order.v = 0
    /\ call.arg.body.v.flow_nodes.v[3].v.order.v = 1
    /\ call.error = ValidationError("node_ordering", -1)

\* An edge as the persistence step needs it: an object with an integer
\* from_order and an integer to_order.
WellFormedEdge(edge) ==
    /\ edge.jt = "dict"
    /\ "from_order" \in DOMAIN edge.v /\ "to_order" \in DOMAIN edge.v
    /\ edge.v.from_order.jt = "int" /\ edge.v.to_order.jt = "int"

\* C15: a response that is valid but for its edges is accepted, and the edge
\* list of a flow the validator returns holds well-formed edges only.
C15_MalformedEdgesAreDropped ==
    /\ (Returned /\ call.arg \in NameInputs \cup CountInputs \cup OrderingInputs)
          => (call.error = NoError
                 <=> validated_flow(FlowOf(call.arg.body.v.actors.v,
                                           call.arg.body.v.steps.v,
                                           call.arg.body.v.flow_nodes.v,
                                           JList(<<>>))).error = NoError)
    /\ Accepted =>
          \A i \in 1..Len(call.flow_data.edges) :
              WellFormedEdge(call.flow_data.edges[i])

\* a flow is returned whose second edge has no to_order
C15_MalformedEdgeReturned ==
    /\ Accepted
    /\ Len(call.flow_data.edges) = 2
    /\ call.flow_data.edges[2] = JObj([from_order |-> JInt(1)])

\* C16: in a flow the validator returns, the from_order and the to_order of
\* every well-formed edge are order values of nodes of the flow.
C16_EdgesReferenceNodeOrders ==
    Accepted =>
        \A i \in 1..Len(call.flow_data.edges) :
            WellFormedEdge(call.flow_data.edges[i])
            => /\ call.flow_data.edges[i].v.from_order.v
                     \in OrderValues(call.flow_data.flow_nodes)
               /\ call.flow_data.edges[i].v.to_order.v
                     \in OrderValues(call.flow_data.flow_nodes)

\* a flow of three nodes is returned with an edge from order 0 to order 30
C16_DanglingEdgeReturned ==
    /\ Accepted
    /\ Len(call.flow_data.flow_nodes) = 3
    /\ call.flow_data.edges = <<Edge(0, 30)>>


\* C17: a generate request ended by a ValidationError that the response
\* validator raised (so after at least one model request) is answered with
\* status 400, and one ended by a failure of the model provider, an
\* AIServiceError, is answered with status 500.
C17_ValidationErrorAnswers400 ==
    (req[1].pc = "done" /\ req[1].requests >= 1) =>
        /\ (req[1].raised.exc = "ValidationError" => req[1].status = 400)
        /\ (req[1].raised.exc = "AIServiceError" => req[1].status = 500)

\* C17 divergence: a response the validator refused for its JSON is answered
\* with status 500 and the detail of the last except clause.
C17_ValidationErrorAnswers500 ==
    /\ req[1].pc = "done"
    /\ req[1].requests = 1
    /\ req[1].raised.exc = "ValidationError"
    /\ req[1].raised.field = "json_format"
    /\ req[1].status = 500
    /\ req[1].detail = "An unexpected error occurred during flow generation"


\* C18: when all 3 attempts of generate_business_flow failed with errors
\* that are retried, the error raised is the generic error of kind
\* retry_exhausted, which wraps the error the last attempt recorded, and so
\* is not that error itself.
C18_ExhaustionRaisesGenericError ==
    (req[1].pc = "done" /\ req[1].attempt = max_retries
        /\ req[1].requests = max_retries) =>
        /\ req[1].raised = AIServiceError("retry_exhausted")
        /\ req[1].raised # req[1].last_error

\* C18 divergence: after three timeouts the error raised is the timeout
\* error the third attempt recorded.
C18_LastErrorRaisedItself ==
    /\ req[1].pc = "done"
    /\ req[1].attempt = max_retries
    /\ req[1].requests = max_retries
    /\ req[1].last_error = AIServiceError("timeout")
    /\ req[1].raised = req[1].last_error
    /\ req[1].sleeps = <<>>


\* C19: the sanitizer is idempotent: for every text, sanitizing the result
\* of sanitize_http_to_https once more gives that result again.
C19_SanitizerIsIdempotent ==
    (call.fn = "sanitize" /\ call.state = "returned_twice") =>
        call.again = call.result

\* C19 divergence: of two schemes in a row the first call rewrites only the
\* first, and the second call rewrites the other.
C19_SecondCallRewrites ==
    /\ call.fn = "sanitize" /\ call.state = "returned_twice"
    /\ call.arg = <<"http://", "http://", "a">>
    /\ call.result = <<"https://", "http://", "a">>
    /\ call.again = <<"https://", "https://", "a">>


\* sanitizer.py 23-28: the text holds nothing the sanitizer would rewrite.
Sanitized(text) == sanitize_http_to_https(text) = text

\* C20: after any sequence of flow operations every text, actor and step of a
\* persisted node and every condition of a persisted edge is an output of
\* the sanitizer: it holds no http:// URL that the sanitizer would rewrite.
C20_PersistedTextsAreSanitized ==
    /\ \A n \in nodes :
          Sanitized(n.text) /\ Sanitized(n.actor) /\ Sanitized(n.step)
    /\ \A p \in Projects : \A i \in 1..Len(edges[p]) :
          Sanitized(edges[p][i].condition)

\* C20 divergence: a generate request answered 200 has stored a node text
\* and an edge condition with their http:// URL.
C20_RawUrlPersisted ==
    /\ req[1].pc = "done" /\ req[1].status = 200
    /\ \E n \in NodesOf(nodes, req[1].project_id) :
          n.text = TextUrl /\ ~Sanitized(n.text)
    /\ \E i \in 1..Len(edges[req[1].project_id]) :
          /\ edges[req[1].project_id][i].condition = TextUrl
          /\ ~Sanitized(edges[req[1].project_id][i].condition)

\* C25: between a failed attempt k (k = 0, 1) of generate_business_flow and
\* the next attempt the service sleeps 2^k seconds after a rate-limit
\* failure, k+1 seconds after a connection failure and not at all after a
\* timeout; no sleep follows the final attempt.
C25_SleepsBetweenAttempts ==
    [][(req[1].pc = "calling" /\ req'[1].attempt = req[1].attempt + 1) =>
          LET k == req[1].attempt
              kind == req'[1].last_error.field
              slept == IF k = max_retries - 1 THEN <<>>
                       ELSE IF kind = "rate_limit"
                       THEN <<IF k = 0 THEN 1 ELSE 2>>
                       ELSE IF kind = "connection" THEN <<k + 1>>
                       ELSE <<>>
          IN  /\ req'[1].sleeps = req[1].sleeps \o slept
              /\ (k < max_retries - 1 <=> req'[1].pc = "calling")]_vars

\* C25 witness: a call about to make its third request after a failure
\* without sleep and a connection failure of attempt 1, followed by a sleep
\* of 2 seconds.
C25_Witness ==
    /\ req[1].pc = "calling"
    /\ req[1].attempt = 2
    /\ req[1].last_error = AIServiceError("connection")
    /\ req[1].sleeps = <<2>>

\* C26: attempt k (k = 0, 1, 2) of generate_business_flow lets the model
\* request run for min(30 * 2^k, 90) seconds, that is 30, 60 and 90 seconds;
\* the allowance never decreases from one attempt to the next and never
\* exceeds 90 seconds.
C26_AttemptTimeouts ==
    /\ Len(req[1].timeouts) = req[1].requests
    /\ \A k \in 1..Len(req[1].timeouts) :
          /\ req[1].timeouts[k] = <<30, 60, 90>>[k]
          /\ req[1].timeouts[k] <= 90
          /\ (k > 1 => req[1].timeouts[k - 1] <= req[1].timeouts[k])

\* C26 witness: a call whose three requests all timed out.
C26_Witness ==
    /\ req[1].pc = "done"
    /\ req[1].raised = AIServiceError("timeout")
    /\ req[1].timeouts = <<30, 60, 90>>

\* C30: a model response that is a valid flow JSON wrapped in a Markdown code
\* fence, with or without a language tag after the opening fence, is parsed
\* to the same flow as the unwrapped JSON.
C30_FencedResponseParsesAlike ==
    (/\ Returned
     /\ call.arg.fence_open \in {"fence_json", "fence"}
     /\ call.arg.fence_close = "fence"
     /\ validated_flow(Response("", call.arg.body, "")).error = NoError) =>
        /\ call.error = NoError
        /\ call.flow_data = validated_flow(Response("", call.arg.body, "")).flow_data

\* C30 divergence: a valid flow between two untagged fences is refused as
\* text that is not JSON.
C30_UntaggedFenceRefused ==
    /\ Returned
    /\ call.arg = Response("fence", ResponseX.body, "fence")
    /\ validated_flow(ResponseX).error = NoError
    /\ call.error = ValidationError("json_format", -1)

\* C28: a reorder request that names a node id not belonging to the project
\* is answered 404 and changes nothing: no node's order differs from before
\* the request, the nodes listed before the bad id included, and the
\* project's undo entry is unchanged.
C28_ReorderWithForeignNodeChangesNothing ==
    [][(response'.op = "reorder_nodes" /\ served' = served + 1 /\ req' = req) =>
          \A p \in {response'.project_id} \cap Projects,
             node_orders \in ReorderInputs, commit \in BOOLEAN :
             (/\ reorder_flow_nodes(p, node_orders, commit)
              /\ \E i \in 1..Len(node_orders) :
                    node_orders[i].id \notin NodeIds(NodesOf(nodes, p)))
             => /\ response' = HttpResponse("reorder_nodes", p, 404,
                                            "Flow node not found in project")
                /\ nodes' = nodes
                /\ edges' = edges
                /\ undo_history' = undo_history]_vars

\* C28 witness: a reorder of project 1 refused for a node it does not have,
\* after two creates in project 1, whose second is still the undo entry.
C28_Witness ==
    /\ response = HttpResponse("reorder_nodes", 1, 404, "Flow node not found in project")
    /\ hist[1].ops = <<"create_node", "create_node">>
    /\ NodeIds(NodesOf(nodes, 1)) = {1, 2}
    /\ undo_history[1].operation = "create_node"
    /\ undo_history[1].data.node_id = 2

\* C27: if a node create, update, delete or reorder request fails (its
\* commit raises and the transaction is rolled back, the answer is 500), the
\* undo entries are the same as before the request.
C27_FailedEditKeepsUndoEntry ==
    [][(/\ served' = served + 1 /\ req' = req
        /\ response'.op \in {"create_node", "update_node", "delete_node",
                             "reorder_nodes"}
        /\ response'.status = 500)
       => (nodes' = nodes /\ undo_history' = undo_history)]_vars

\* C27 divergence: the delete of node 1 failed and node 1 is still there,
\* yet the project's undo entry is now the entry of that delete, in place
\* of the entry of the create before it.
C27_FailedDeleteRecorded ==
    /\ response = HttpResponse("delete_node", 1, 500, "Failed to delete flow node")
    /\ hist[1].ops = <<"create_node", "delete_failed">>
    /\ 1 \in NodeIds(NodesOf(nodes, 1))
    /\ undo_history[1].operation = "delete_node"
    /\ undo_history[1].data.node_id = 1

\* C29: undo does not fail because its target is gone: when the node named
\* by a recorded create_node or update_node entry no longer exists (for
\* example after a bulk save, which neither records nor clears the entry) and
\* the commit succeeds, undo is answered 200, leaves the nodes unchanged and
\* clears the project's entry.
C29_UndoOfMissingNodeSucceeds ==
    [][(response'.op = "undo" /\ served' = served + 1 /\ req' = req) =>
          \A p \in {response'.project_id} \cap Projects :
             (/\ p \in DOMAIN undo_history
              /\ undo_history[p].operation \in {"create_node", "update_node"}
              /\ undo_history[p].data.node_id \notin NodeIds(nodes)
              /\ undo_flow_operation(p, TRUE))
             => /\ response' = HttpResponse("undo", p, 200, "")
                /\ nodes' = nodes
                /\ next_id' = next_id
                /\ p \notin DOMAIN undo_history']_vars

\* C29 witness: node 1 was updated, a bulk save replaced it by node 2, and
\* the undo of the update was answered 200 with node 2 left alone.
C29_Witness ==
    /\ hist[1].ops = <<"update_node", "save_edited_flow", "undo">>
    /\ response = HttpResponse("undo", 1, 200, "")
    /\ NodeIds(nodes) = {2}
    /\ 1 \notin DOMAIN undo_history

\* The two requests that were in flight together on project p are both
\* done, and none was started since.
Overlapped(p) ==
    /\ \A r \in Reqs : req[r].pc = "done" /\ req[r].project_id = p
                          /\ req[r].requests >= 1
    /\ served = Cardinality(Reqs)

\* The stored flow of p is the whole flow of outcome o, inserted last.
StoredFlowIs(p, o) ==
    LET flow_data == accepted_flows[o]
    IN  /\ NodesOf(nodes, p) = new_flow_nodes(p, flow_data.flow_nodes,
                                              next_id - Len(flow_data.flow_nodes))
        /\ \A i \in 1..Len(flow_data.edges) : edge_insertable(flow_data.edges[i])
        /\ edges[p] = new_flow_edges(flow_data.edges)

\* C21: when two generate requests for the same project overlapped and have
\* both completed, and a replacement was committed, the persisted flow is
\* the complete flow (nodes and edges) of one response, the one inserted
\* last; it never mixes nodes or edges of the two requests.
C21_LastCommitWins ==
    \A p \in Projects :
        (Overlapped(p) /\ hist[p].ops # <<>>) =>
            \E o \in DOMAIN accepted_flows : o \in SysOutcomes /\ StoredFlowIs(p, o)

\* C21 divergence: the first request to commit stored its whole flow and
\* was answered 200; the other then replaced the nodes, failed on its edges
\* and was answered 500: its nodes are stored with no edge at all.
C21_PartialFlowOfLastRequest ==
    /\ Overlapped(1)
    /\ hist[1].ops = <<"generate", "generate_failed">>
    /\ req[1].status = 200
    /\ req[2].raised = KeyError
    /\ NodeIds(NodesOf(nodes, 1)) = {4, 5, 6}
    /\ edges[1] = <<>>

\* C22: whenever an operation wrapped by handle_database_errors fails with a
\* database fault (integrity, operational, timeout, disconnection or any
\* other SQLAlchemy error) and a session was passed to it, rollback of that
\* session is called before the DatabaseError is raised.
C22_RollbackBeforeDatabaseError ==
    (/\ call.fn = "handle_database_errors" /\ call.state = "returned"
     /\ call.outcome \in DatabaseFaults
     /\ call.place \in {"kwargs", "args"}) =>
        call.steps = <<"db.rollback()", "raise DatabaseError">>

\* C22 divergence: a DisconnectionError of an operation that was given its
\* session by keyword is turned into a DatabaseError with no rollback.
C22_DisconnectionWithoutRollback ==
    /\ call.fn = "handle_database_errors" /\ call.state = "returned"
    /\ call.outcome = "DisconnectionError"
    /\ call.place = "kwargs"
    /\ call.wrapper = "async_wrapper"
    /\ call.steps = <<"raise DatabaseError">>
    /\ call.message = "Database connection lost during"

Answered == call.fn = "error_response" /\ call.state = "returned"
IsEnvelope(content) ==
    /\ content.keys = {"error"}
    /\ DOMAIN content.error = {"code", "message", "details"}

\* C23: every error response of the API has a body of the form
\* {error: {code, message, details}}, whichever component produced the
\* error: an HTTPException of a router, a BusinessFlowException, an
\* unexpected exception, or a rejected request body.
C23_ErrorBodiesShareEnvelope ==
    Answered => \A text \in ExceptionTexts : IsEnvelope(call.responses[text].content)

\* C23 divergence: a rejected request body is answered 422 with a body whose
\* only key is "detail".
C23_RejectedBodyHasNoEnvelope ==
    /\ Answered
    /\ call.case.origin = "request_body"
    /\ \A text \in ExceptionTexts :
          /\ call.responses[text].status_code = 422
          /\ call.responses[text].content.keys = {"detail"}

\* the text is a part of the message or of the details of the body
EchoesText(content, text) ==
    \/ \E i \in 1..Len(content.error.message) : content.error.message[i] = text
    \/ \E i \in 1..Len(content.error.details) : content.error.details[i] = text

\* C24: in the production environment the body of an error response caused
\* by an internal exception does not depend on the exception's text: two
\* requests that differ only in that text get the same body; outside
\* production the body carries the text.
C24_ProductionHidesExceptionText ==
    (Answered /\ call.case \in InternalCases) =>
        IF call.environment = "production"
        THEN \A t1 \in ExceptionTexts, t2 \in ExceptionTexts :
                call.responses[t1] = call.responses[t2]
        ELSE \A text \in ExceptionTexts : EchoesText(call.responses[text].content, text)

\* C24 divergence: in production, the answer to a failed save of an edited
\* flow carries the text of the exception in its message.
C24_ProductionEchoesSaveFailure ==
    /\ Answered
    /\ call.environment = "production"
    /\ call.case.origin = "save_edited_flow"
    /\ call.responses[TextA].content.error.message
          = <<<<"Failed to save edited flow: ">>, TextA>>
    /\ call.responses[TextB].content.error.message
          = <<<<"Failed to save edited flow: ">>, TextB>>

====
